---- MODULE Spec2Model ----
(***************************************************************************)
(* The request executor of the PokeForge Python SDK                        *)
(* (pokeforge_sdk/client/http.py) with its token manager (auth.py), its    *)
(* error factory (errors.py) and its retry configuration (config.py).      *)
(*                                                                         *)
(* Conventions.  An Optional[x] of the source is a set with at most one    *)
(* element: {} is None, {v} is the value v.  Durations are in              *)
(* milliseconds (1.0 s of the source is 1000).  A logical call is one      *)
(* run of HttpClient.request; it is cut into steps at its suspension       *)
(* points (the transport call and asyncio.sleep).                          *)
(***************************************************************************)
EXTENDS Integers, Sequences, FiniteSets, TLC

(***************************************************************************)
(* State                                                                   *)
(***************************************************************************)
VARIABLES
    client,        \* HttpClient._client is not None
    retries,       \* HttpClient._retries
    retry_config,  \* HttpClient._retry_config
    static_token,  \* TokenManager._static_token
    get_token_fn,  \* TokenManager._get_token_fn is set
    cbToken,       \* what the configured callback returns when called now
    pc,            \* where the logical call is: idle, sending, sleeping, done
    no_retry,      \* the no_retry argument of the call
    max_attempts,  \* local max_attempts
    attempt,       \* local attempt: the physical attempts issued so far
    token,         \* what get_token returned to _build_headers
    headers,       \* the Authorization header of local headers
    sentAuth,      \* the Authorization header each physical attempt carried
    cbCalls,       \* invocations of the callback during this call
    outcome,       \* what the transport did on the latest attempt
    history,       \* what it did on the attempts before, oldest first
    waits,         \* the asyncio.sleep delays of this call, oldest first
    last_error,    \* local last_error
    result         \* how the call ended

vars == <<client, retries, retry_config, static_token, get_token_fn, cbToken, pc,
          no_retry, max_attempts, attempt, token, headers, sentAuth, cbCalls,
          outcome, history, waits, last_error, result>>

configVars == <<retries, retry_config, static_token, get_token_fn>>
callVars == <<no_retry, max_attempts, attempt, token, headers, sentAuth, cbCalls,
              outcome, history, waits, last_error, result>>

\* State of the other developments of this module: direct use of the
\* TokenManager, single evaluations of the pure functions, and Page
VARIABLES
    lastSet,       \* the argument of the latest set_token, None before any
    gotSince,      \* get_token was called after the latest set_token
    input,         \* the arguments a function or a method is evaluated on
    output,        \* what it gave
    self,          \* the Page a method is called on
    op,            \* the method of Page that is running or ran last
    ppc,           \* where that method is: idle, fetching, done
    fetches,       \* the (page, page_size) the fetcher was called with, in order
    pages,         \* what the fetcher answered, in order
    current_page,  \* local current_page of to_list
    all_items,     \* local all_items of to_list
    ret,           \* what the method returned or raised
    yielded,       \* the items an iteration yielded so far, in order
    at,            \* how many items of the list being looped over were yielded
    earlier        \* how the latest to_list or iteration on this Page went

\* State of the list and search methods of a resource
VARIABLES
    opts,          \* the options object the caller passed to list or search
    closure,       \* what the fetcher of the Page in hand captured
    queries        \* the queries sent to the list endpoint, in order

\* State of logical calls running concurrently on one client
VARIABLES
    calls,         \* the locals of the request coroutine of each task
    everCurrent    \* the tokens that were current at some point so far

\* State of the transports of one client
VARIABLES
    transports,    \* the httpx.AsyncClient objects created so far: open or closed
    ended          \* how the logical calls made so far ended

tokenVars == <<lastSet, gotSince>>
calcVars == <<input, output>>
iterVars == <<yielded, at, earlier>>
pageVars == <<self, op, ppc, fetches, pages, current_page, all_items, ret, iterVars>>
listVars == <<opts, closure, queries>>
taskVars == <<calls, everCurrent>>
scopeVars == <<transports, ended>>
restVars == <<listVars, taskVars, scopeVars>>
auxVars == <<tokenVars, calcVars, pageVars, restVars>>
allVars == <<vars, auxVars>>

\* largest value of PokeForgeClientConfig.retries that is explored
MaxRetries == 2

None == {}
Some(v) == {v}
The(o) == CHOOSE v \in o : TRUE

MinOf(a, b) == IF a <= b THEN a ELSE b

RECURSIVE Pow2(_)
Pow2(n) == IF n <= 0 THEN 1 ELSE 2 * Pow2(n - 1)

(***************************************************************************)
(* Configuration (config.py)                                               *)
(***************************************************************************)
\* PokeForgeClientConfig.retries is an unvalidated int
RetriesValues == (0 - 2) .. MaxRetries

\* RetryConfig(base_delay, max_delay, exponential); the first is the default
RetryConfigs ==
    { [base_delay |-> 1000, max_delay |-> 30000, exponential |-> TRUE],
      [base_delay |-> 1000, max_delay |-> 1500,  exponential |-> TRUE],
      [base_delay |-> 1000, max_delay |-> 30000, exponential |-> FALSE],
      [base_delay |-> 2000, max_delay |-> 1500,  exponential |-> FALSE] }

\* token strings: the empty string and two different non-empty tokens
Tokens == {"", "tokA", "tokB"}

\* AuthConfig = Union[StaticAuth, DynamicAuth, None]
AuthConfigs ==
    { [type |-> "none", token |-> ""] }
    \cup { [type |-> "static", token |-> t] : t \in {"", "tokA"} }
    \cup { [type |-> "dynamic", token |-> ""] }

\* what a DynamicAuth callback can return when it is called: a token or None
CallbackResults == {None} \cup { Some(t) : t \in Tokens }

DefaultRetryConfig == [base_delay |-> 1000, max_delay |-> 30000, exponential |-> TRUE]

\* the PokeForgeClientConfig values explored: every auth source under the
\* default RetryConfig, every RetryConfig without auth, each with every retries
Configs ==
    { [retries |-> r, retry_config |-> rc, auth |-> a] :
        r \in RetriesValues, rc \in {DefaultRetryConfig}, a \in AuthConfigs }
    \cup
    { [retries |-> r, retry_config |-> rc, auth |-> a] :
        r \in RetriesValues, rc \in RetryConfigs,
        a \in {[type |-> "none", token |-> ""]} }

(***************************************************************************)
(* What the transport can answer to one physical attempt                   *)
(***************************************************************************)
\* A response body as response.json() sees it:
\*   json   - the text parses as JSON (otherwise response.json() raises)
\*   truthy - the parsed value is truthy in Python ({} [] 0 "" null are not)
\*   valid  - ProblemDetails.model_validate accepts the parsed value
\*   title, detail - the problem-details fields when valid
NoJson      == [json |-> FALSE, truthy |-> FALSE, valid |-> FALSE,
                title |-> None, detail |-> None]
EmptyObject == [json |-> TRUE, truthy |-> FALSE, valid |-> TRUE,
                title |-> None, detail |-> None]
JsonArray   == [json |-> TRUE, truthy |-> TRUE, valid |-> FALSE,
                title |-> None, detail |-> None]
Problem(t, d) == [json |-> TRUE, truthy |-> TRUE, valid |-> TRUE,
                  title |-> t, detail |-> d]

Bodies ==
    { NoJson, EmptyObject, JsonArray,
      Problem(None, None),
      Problem(Some("Not Found"), None),
      Problem(None, Some("the detail")),
      Problem(Some("the title"), Some("the detail")),
      Problem(Some(""), Some("the detail")) }

\* Content-Type header values, as the sequence of their parts; <<>> is a
\* response without the header (headers.get("content-type", "") gives "")
ContentTypes ==
    { <<>>,
      <<"application/json">>,
      <<"application/json", "; charset=utf-8">>,
      <<"application/problem+json">>,
      <<"text/html">> }

\* Retry-After header: absent, or its text
RetryAfterHeaders == { None, Some(""), Some("0"), Some("2"), Some("60"), Some("soon") }

ErrorStatuses == {302, 400, 401, 403, 404, 418, 429, 500, 503}

NoResponse == [status |-> 0, ctype |-> <<>>, body |-> NoJson, retry_after |-> None]

SuccessResponses ==
    { [status |-> 200, ctype |-> c, body |-> b, retry_after |-> None] :
        c \in ContentTypes,
        b \in {NoJson, Problem(Some("the title"), Some("the detail"))} }
    \cup
    { [status |-> 200, ctype |-> <<"application/json">>, body |-> EmptyObject,
       retry_after |-> None],
      [status |-> 201, ctype |-> <<"application/json">>,
       body |-> Problem(Some("the title"), None), retry_after |-> None],
      [status |-> 204, ctype |-> <<>>, body |-> NoJson, retry_after |-> None],
      [status |-> 204, ctype |-> <<"application/json">>, body |-> NoJson,
       retry_after |-> None] }

ErrorResponses ==
    { [status |-> s, ctype |-> <<"application/json">>,
       body |-> Problem(Some("the title"), Some("the detail")), retry_after |-> None] :
        s \in ErrorStatuses }
    \cup
    { [status |-> s, ctype |-> <<"application/problem+json">>, body |-> b,
       retry_after |-> None] : s \in {404, 429}, b \in Bodies }
    \cup
    { [status |-> 500, ctype |-> <<"text/html">>, body |-> b, retry_after |-> None] :
        b \in {NoJson, JsonArray} }
    \cup
    { [status |-> 429, ctype |-> <<"application/json">>,
       body |-> Problem(Some("the title"), None), retry_after |-> h] :
        h \in RetryAfterHeaders }
    \cup
    { [status |-> 503, ctype |-> <<"text/html">>, body |-> NoJson,
       retry_after |-> Some("60")] }

\* The outcome of self._client.request: a response, or one of the exceptions
\* the except clauses of HttpClient.request tell apart
Outcomes ==
    { [type |-> "response", resp |-> r] : r \in SuccessResponses \cup ErrorResponses }
    \cup
    { [type |-> t, resp |-> NoResponse] : t \in {"timeout", "network", "unexpected"} }

(***************************************************************************)
(* errors.py                                                               *)
(***************************************************************************)
\* an exception object of the PokeForgeError hierarchy: kind is its class,
\* cause is the __cause__ a NetworkError or TimeoutError is raised with
NoError == [kind |-> "none", status |-> 0, message |-> "", retry_after |-> None,
            cause |-> "none"]

Error(kind, status, message) ==
    [kind |-> kind, status |-> status, message |-> message, retry_after |-> None,
     cause |-> "none"]

\* error_map of from_response; PokeForgeError is the base class
error_map(status) ==
    CASE status = 400 -> "ValidationError"
      [] status = 401 -> "AuthenticationError"
      [] status = 403 -> "ForbiddenError"
      [] status = 404 -> "NotFoundError"
      [] status = 429 -> "RateLimitError"
      [] OTHER -> "PokeForgeError"

\* Python truthiness of an Optional[str]
TruthyStr(o) == o # None /\ The(o) # ""

\* a variant of MessageOf that prefers the detail to the title
MessageOf_detail_first(status, pd) ==
    IF pd # None /\ TruthyStr(The(pd).detail) THEN The(The(pd).detail)
    ELSE IF pd # None /\ TruthyStr(The(pd).title) THEN The(The(pd).title)
    ELSE "HTTP " \o ToString(status) \o " error"

\* the message expression of from_response, pd being the ProblemDetails or None
MessageOf(status, pd) ==
    IF pd # None /\ TruthyStr(The(pd).title) THEN The(The(pd).title)
    ELSE IF pd # None /\ TruthyStr(The(pd).detail) THEN The(The(pd).detail)
    ELSE "HTTP " \o ToString(status) \o " error"

\* PokeForgeError.from_response(status, body): body is None or the parsed JSON.
\* ProblemDetails.model_validate raises pydantic's ValidationError on a truthy
\* body that is no problem-details object; raised names the exception that
\* escapes, "" when the factory returns.
from_response(status, body) ==
    LET truthy == body # None /\ The(body).truthy
        pd == IF truthy THEN body ELSE None
    IN IF truthy /\ ~The(body).valid
       THEN [raised |-> "pydantic.ValidationError", error |-> NoError]
       ELSE [raised |-> "",
             error |-> Error(error_map(status), status, MessageOf(status, pd))]

(***************************************************************************)
(* auth.py                                                                 *)
(***************************************************************************)
\* TokenManager.get_token: static is _static_token, fn tells whether
\* _get_token_fn is set, cb is what the callback returns when called now.
\* called tells whether the callback was invoked.
get_token(static, fn, cb) ==
    IF TruthyStr(static) THEN [token |-> static, called |-> FALSE]
    ELSE IF fn THEN [token |-> cb, called |-> TRUE]
    ELSE [token |-> None, called |-> FALSE]

\* a variant of has_auth that looks at the static token only
has_auth_static_only(static, fn) == TruthyStr(static)

\* TokenManager.has_auth(): bool(self._static_token or self._get_token_fn)
has_auth(static, fn) == TruthyStr(static) \/ fn

(***************************************************************************)
(* http.py: the helpers of HttpClient                                      *)
(***************************************************************************)
\* a variant of build_headers that tests the token against None instead of
\* for truthiness
build_headers_not_none(tok) ==
    IF tok # None THEN Some("Bearer " \o The(tok)) ELSE None

\* _build_headers: the Authorization header of the headers dict, None when
\* the dict has none
build_headers(tok) ==
    IF TruthyStr(tok) THEN Some("Bearer " \o The(tok)) ELSE None

\* int(retry_after_header) on the header texts of RetryAfterHeaders; -1 stands
\* for the ValueError int() raises on a text that is no integer literal
IntOf(text) ==
    CASE text = "0" -> 0
      [] text = "2" -> 2
      [] text = "5" -> 5
      [] text = "60" -> 60
      [] OTHER -> -1

\* body = response.json(), None when that raises
ParsedBody(resp) == IF resp.body.json THEN Some(resp.body) ELSE None

\* a variant of handle_error_response that keeps the header's seconds
handle_error_response_seconds(resp) ==
    LET body == ParsedBody(resp)
        h == resp.retry_after
        made == from_response(resp.status, body)
    IN IF resp.status = 429
       THEN IF TruthyStr(h) /\ IntOf(The(h)) < 0
            THEN [raised |-> "ValueError", error |-> NoError]
            ELSE IF made.raised # "" THEN made
            ELSE [raised |-> "",
                  error |-> [made.error EXCEPT !.retry_after =
                               IF TruthyStr(h) THEN Some(IntOf(The(h)))
                               ELSE None]]
       ELSE made

\* a variant of calculate_delay without the cap of max_delay on the backoff
calculate_delay_uncapped(rc, att, error) ==
    IF /\ error # None
       /\ The(error).kind = "RateLimitError"
       /\ The(error).retry_after # None
       /\ The(The(error).retry_after) # 0
    THEN MinOf(The(The(error).retry_after), rc.max_delay)
    ELSE IF rc.exponential
         THEN rc.base_delay * Pow2(att - 1)
         ELSE rc.base_delay

\* _handle_error_response(response)
handle_error_response(resp) ==
    LET body == ParsedBody(resp)
        h == resp.retry_after
        made == from_response(resp.status, body)
    IN IF resp.status = 429
       THEN IF TruthyStr(h) /\ IntOf(The(h)) < 0
            THEN [raised |-> "ValueError", error |-> NoError]
            ELSE IF made.raised # "" THEN made
            ELSE [raised |-> "",
                  error |-> [made.error EXCEPT !.retry_after =
                               IF TruthyStr(h) THEN Some(IntOf(The(h)) * 1000)
                               ELSE None]]
       ELSE made

\* a variant of calculate_delay that doubles the fixed delay as well
calculate_delay_fixed_doubling(rc, att, error) ==
    IF /\ error # None
       /\ The(error).kind = "RateLimitError"
       /\ The(error).retry_after # None
       /\ The(The(error).retry_after) # 0
    THEN MinOf(The(The(error).retry_after), rc.max_delay)
    ELSE IF rc.exponential
         THEN MinOf(rc.base_delay * Pow2(att - 1), rc.max_delay)
         ELSE rc.base_delay * Pow2(att - 1)

\* _calculate_delay(att, error) in milliseconds under RetryConfig rc;
\* error is None or the PokeForgeError passed
calculate_delay(rc, att, error) ==
    IF /\ error # None
       /\ The(error).kind = "RateLimitError"
       /\ The(error).retry_after # None
       /\ The(The(error).retry_after) # 0
    THEN MinOf(The(The(error).retry_after), rc.max_delay)
    ELSE IF rc.exponential
         THEN MinOf(rc.base_delay * Pow2(att - 1), rc.max_delay)
         ELSE rc.base_delay

\* a variant of MaxAttemptsOf that takes retries for the number of attempts
MaxAttemptsOf_retries_only(no_retry_arg, retries_cfg) ==
    IF no_retry_arg THEN 1 ELSE retries_cfg

\* a variant of MaxAttemptsOf that ignores no_retry
MaxAttemptsOf_ignores_no_retry(no_retry_arg, retries_cfg) == retries_cfg + 1

\* max_attempts of request
MaxAttemptsOf(no_retry_arg, retries_cfg) ==
    IF no_retry_arg THEN 1 ELSE retries_cfg + 1

\* response.is_success of httpx: a 2xx status
is_success(resp) == resp.status >= 200 /\ resp.status <= 299

\* "application/json" in content_type
HasJsonContentType(ctype) == \E i \in 1..Len(ctype) : ctype[i] = "application/json"

(***************************************************************************)
(* http.py: one pass through the body of the attempt loop of request       *)
(***************************************************************************)
\* a variant of success_step without the test for status 204
success_step_no_204(resp) ==
    IF HasJsonContentType(resp.ctype)
    THEN IF resp.body.json
         THEN [next |-> "return", value |-> Some(resp.body), error |-> NoError,
               delay |-> 0]
         ELSE [next |-> "raise", value |-> None, delay |-> 0,
               error |-> [Error("NetworkError", 0,
                                "Unexpected error: JSONDecodeError")
                          EXCEPT !.cause = "JSONDecodeError"]]
    ELSE [next |-> "return", value |-> None, error |-> NoError, delay |-> 0]

\* the value request returns for a 2xx response (lines 86-92); response.json()
\* raises on a body that is no JSON
success_step(resp) ==
    IF resp.status = 204
    THEN [next |-> "return", value |-> None, error |-> NoError, delay |-> 0]
    ELSE IF HasJsonContentType(resp.ctype)
         THEN IF resp.body.json
              THEN [next |-> "return", value |-> Some(resp.body), error |-> NoError,
                    delay |-> 0]
              ELSE [next |-> "raise", value |-> None, delay |-> 0,
                    error |-> [Error("NetworkError", 0,
                                     "Unexpected error: JSONDecodeError")
                               EXCEPT !.cause = "JSONDecodeError"]]
         ELSE [next |-> "return", value |-> None, error |-> NoError, delay |-> 0]

\* a variant of should_retry that retries whatever the status
should_retry_any_status(att, max, status) == att < max

\* the retry condition of lines 98-100
should_retry(att, max, status) ==
    att < max /\ (status = 429 \/ status >= 500)

\* a variant of error_step that computes the delay from the coming attempt
error_step_coming_attempt(rc, att, max, resp) ==
    LET made == handle_error_response(resp)
    IN IF made.raised # ""
       THEN [next |-> "raise", value |-> None, delay |-> 0,
             error |-> [Error("NetworkError", 0, "Unexpected error: " \o made.raised)
                        EXCEPT !.cause = made.raised]]
       ELSE IF should_retry(att, max, resp.status)
            THEN [next |-> "retry", value |-> None, error |-> made.error,
                  delay |-> calculate_delay(rc, att + 1, Some(made.error))]
            ELSE [next |-> "raise", value |-> None, error |-> made.error, delay |-> 0]

\* lines 94-105 and the except clauses they can reach (118-121)
error_step(rc, att, max, resp) ==
    LET made == handle_error_response(resp)
    IN IF made.raised # ""
       THEN [next |-> "raise", value |-> None, delay |-> 0,
             error |-> [Error("NetworkError", 0, "Unexpected error: " \o made.raised)
                        EXCEPT !.cause = made.raised]]
       ELSE IF should_retry(att, max, resp.status)
            THEN [next |-> "retry", value |-> None, error |-> made.error,
                  delay |-> calculate_delay(rc, att, Some(made.error))]
            ELSE [next |-> "raise", value |-> None, error |-> made.error, delay |-> 0]

\* a variant of network_step that counts attempts from zero for the delay
network_step_from_zero(rc, att, max) ==
    IF att < max
    THEN [next |-> "retry", value |-> None, error |-> NoError,
          delay |-> calculate_delay(rc, att - 1, None)]
    ELSE [next |-> "raise", value |-> None, delay |-> 0,
          error |-> [Error("NetworkError", 0, "Network error")
                     EXCEPT !.cause = "httpx.NetworkError"]]

\* except httpx.NetworkError (lines 111-117)
network_step(rc, att, max) ==
    IF att < max
    THEN [next |-> "retry", value |-> None, error |-> NoError,
          delay |-> calculate_delay(rc, att, None)]
    ELSE [next |-> "raise", value |-> None, delay |-> 0,
          error |-> [Error("NetworkError", 0, "Network error")
                     EXCEPT !.cause = "httpx.NetworkError"]]

\* a variant of timeout_step that treats a timeout like a connectivity failure
timeout_step_retried == network_step(retry_config, attempt, max_attempts)

\* except httpx.TimeoutException (lines 107-110)
timeout_step ==
    [next |-> "raise", value |-> None, delay |-> 0,
     error |-> [Error("TimeoutError", 0, "Request timed out after <timeout>s")
                EXCEPT !.cause = "httpx.TimeoutException"]]

\* a variant of unexpected_step that treats the exception like a connectivity
\* failure
unexpected_step_retried == network_step(retry_config, attempt, max_attempts)

\* except Exception (lines 120-121), for an exception of the transport call
unexpected_step ==
    [next |-> "raise", value |-> None, delay |-> 0,
     error |-> [Error("NetworkError", 0, "Unexpected error: transport")
                EXCEPT !.cause = "transport"]]

\* the body of the for loop for attempt att, given what the transport did
attempt_step(rc, att, max, o) ==
    CASE o.type = "timeout" -> timeout_step
      [] o.type = "network" -> network_step(rc, att, max)
      [] o.type = "unexpected" -> unexpected_step
      [] OTHER -> IF is_success(o.resp) THEN success_step(o.resp)
                  ELSE error_step(rc, att, max, o.resp)

(***************************************************************************)
(* The state machine of one client                                         *)
(***************************************************************************)
NoOutcome == [type |-> "none", resp |-> NoResponse]
NoResult == [type |-> "none", value |-> None, error |-> NoError]

\* the locals of a call that has not started
CallReset ==
    /\ no_retry = FALSE
    /\ max_attempts = 0
    /\ attempt = 0
    /\ token = None
    /\ headers = None
    /\ sentAuth = <<>>
    /\ cbCalls = 0
    /\ outcome = NoOutcome
    /\ history = <<>>
    /\ waits = <<>>
    /\ last_error = None
    /\ result = NoResult

\* no set_token and no direct get_token yet
TokenReset == lastSet = None /\ gotSince = FALSE

\* no list or search call made
NoOptions == [page |-> 0, page_size |-> 0, set_id |-> None, rarity |-> None,
              sort_by |-> None, sort_order |-> None, search |-> None, q |-> None]
NoClosure == [shared |-> FALSE, opts |-> NoOptions]
ListReset == opts = NoOptions /\ closure = NoClosure /\ queries = <<>>

\* the tasks that make logical calls on the client
Tasks == {1, 2}

\* the locals of a task that has no call running; since is the argument of
\* the latest set_token when the call started, None once a later set_token ran
NoCall == [pc |-> "idle", no_retry |-> FALSE, max_attempts |-> 0, attempt |-> 0,
           headers |-> None, sent |-> <<>>, outs |-> <<>>, waits |-> <<>>,
           last_error |-> None, result |-> NoResult, since |-> None]
TaskReset == calls = [t \in Tasks |-> NoCall] /\ everCurrent = {}
ScopeReset == transports = <<>> /\ ended = {}
RestReset == ListReset /\ TaskReset /\ ScopeReset

\* no pure function under evaluation
NoInput == [fn |-> "none"]
NoOutput == [fn |-> "none"]
CalcReset == input = NoInput /\ output = NoOutput

\* no Page in use
NoPage == [data |-> <<>>,
           pagination |-> [page |-> 0, page_size |-> 0, total_count |-> 0,
                           total_pages |-> 0, has_next |-> FALSE,
                           has_previous |-> FALSE]]
NoReturn == [type |-> "none", page |-> None, items |-> <<>>]
PageReset ==
    /\ self = NoPage
    /\ op = "none"
    /\ ppc = "idle"
    /\ fetches = <<>>
    /\ pages = <<>>
    /\ current_page = None
    /\ all_items = <<>>
    /\ ret = NoReturn
    /\ yielded = <<>>
    /\ at = 0
    /\ earlier = "none"

\* HttpClient.__init__ and TokenManager.__init__ on a PokeForgeClientConfig
Init ==
    /\ client = FALSE
    /\ \E config \in Configs :
         /\ retries = config.retries
         /\ retry_config = config.retry_config
         /\ static_token = IF config.auth.type = "static" THEN Some(config.auth.token)
                            ELSE None
         /\ get_token_fn = (config.auth.type = "dynamic")
         /\ cbToken \in IF config.auth.type = "dynamic" THEN CallbackResults
                         ELSE {None}
    /\ pc = "idle"
    /\ CallReset
    /\ TokenReset
    /\ RestReset
    /\ CalcReset
    /\ PageReset

\* HttpClient.__aenter__
aenter ==
    /\ pc = "idle"
    /\ ~client
    /\ client' = TRUE
    /\ UNCHANGED <<configVars, cbToken, pc, callVars, auxVars>>

\* HttpClient.__aexit__
aexit ==
    /\ pc = "idle"
    /\ client
    /\ client' = FALSE
    /\ UNCHANGED <<configVars, cbToken, pc, callVars, auxVars>>

\* the environment: the token source behind the callback moves on
Rotate ==
    /\ get_token_fn
    /\ cbToken' \in CallbackResults \ {cbToken}
    /\ UNCHANGED <<client, configVars, pc, callVars, auxVars>>

\* what the call ends with
Raise(e) == [type |-> "raise", value |-> None, error |-> e]
Return(v) == [type |-> "return", value |-> v, error |-> NoError]

\* a variant of request that builds the headers before it tests self._client
request_headers_first(nr) ==
    /\ pc = "idle"
    /\ no_retry' = nr
    /\ LET got == get_token(static_token, get_token_fn, cbToken)
           max == MaxAttemptsOf(nr, retries)
       IN /\ token' = got.token
          /\ cbCalls' = IF got.called THEN cbCalls + 1 ELSE cbCalls
          /\ headers' = build_headers(got.token)
          /\ IF ~client
             THEN /\ result' = Raise(Error("RuntimeError", 0,
                                           "HttpClient must be used as async context manager"))
                  /\ pc' = "done"
                  /\ UNCHANGED <<max_attempts, attempt, sentAuth>>
             ELSE /\ max_attempts' = max
                  /\ IF max >= 1
                     THEN /\ attempt' = 1
                          /\ sentAuth' = <<build_headers(got.token)>>
                          /\ pc' = "sending"
                          /\ UNCHANGED result
                     ELSE /\ result' = Raise(Error("NetworkError", 0,
                                                   "Request failed after retries"))
                          /\ pc' = "done"
                          /\ UNCHANGED <<attempt, sentAuth>>
    /\ UNCHANGED <<client, configVars, cbToken, outcome, history, waits, last_error,
                   auxVars>>

\* HttpClient.request up to its first suspension in the transport (lines 66-84)
request(nr) ==
    /\ pc = "idle"
    /\ no_retry' = nr
    /\ IF ~client
       THEN /\ result' = Raise(Error("RuntimeError", 0,
                                     "HttpClient must be used as async context manager"))
            /\ pc' = "done"
            /\ UNCHANGED <<max_attempts, attempt, token, headers, sentAuth, cbCalls>>
       ELSE LET got == get_token(static_token, get_token_fn, cbToken)
                max == MaxAttemptsOf(nr, retries)
            IN /\ token' = got.token
               /\ cbCalls' = IF got.called THEN cbCalls + 1 ELSE cbCalls
               /\ headers' = build_headers(got.token)
               /\ max_attempts' = max
               /\ IF max >= 1
                  THEN /\ attempt' = 1
                       /\ sentAuth' = <<build_headers(got.token)>>
                       /\ pc' = "sending"
                       /\ UNCHANGED result
                  ELSE /\ result' = Raise(Error("NetworkError", 0,
                                                "Request failed after retries"))
                       /\ pc' = "done"
                       /\ UNCHANGED <<attempt, sentAuth>>
    /\ UNCHANGED <<client, configVars, cbToken, outcome, history, waits, last_error,
                   auxVars>>

\* the transport call of attempt `attempt` ends with o; the loop body runs to
\* the return, the raise or the asyncio.sleep (lines 86-121)
respond(o) ==
    /\ pc = "sending"
    /\ LET st == attempt_step(retry_config, attempt, max_attempts, o)
       IN /\ outcome' = o
          /\ CASE st.next = "return" ->
                    /\ result' = Return(st.value)
                    /\ pc' = "done"
                    /\ UNCHANGED waits
               [] st.next = "raise" ->
                    /\ result' = Raise(st.error)
                    /\ pc' = "done"
                    /\ UNCHANGED waits
               [] OTHER ->
                    /\ waits' = Append(waits, st.delay)
                    /\ pc' = "sleeping"
                    /\ UNCHANGED result
    /\ UNCHANGED <<client, configVars, cbToken, no_retry, max_attempts, attempt, token,
                   headers, sentAuth, cbCalls, history, last_error, auxVars>>

\* what history keeps of an attempt that was retried: the kind of outcome, the
\* status and the Retry-After header of the response
Summary(o) ==
    [type |-> o.type, status |-> o.resp.status, retry_after |-> o.resp.retry_after]

\* a variant of wake where a retry is taken off the client's retries
wake_spending_retries ==
    /\ pc = "sleeping"
    /\ last_error' = IF outcome.type = "network" THEN Some("httpx.NetworkError")
                     ELSE last_error
    /\ history' = Append(history, Summary(outcome))
    /\ attempt' = attempt + 1
    /\ sentAuth' = Append(sentAuth, headers)
    /\ outcome' = NoOutcome
    /\ pc' = "sending"
    /\ retries' = retries - 1
    /\ UNCHANGED <<client, retry_config, static_token, get_token_fn, cbToken, no_retry,
                   max_attempts, token, headers, cbCalls, waits, result, auxVars>>

\* asyncio.sleep returns: continue with the next attempt (lines 103, 115-116,
\* then 75-84 again)
wake ==
    /\ pc = "sleeping"
    /\ last_error' = IF outcome.type = "network" THEN Some("httpx.NetworkError")
                     ELSE last_error
    /\ history' = Append(history, Summary(outcome))
    /\ attempt' = attempt + 1
    /\ sentAuth' = Append(sentAuth, headers)
    /\ outcome' = NoOutcome
    /\ pc' = "sending"
    /\ UNCHANGED <<client, configVars, cbToken, no_retry, max_attempts, token, headers,
                   cbCalls, waits, result, auxVars>>

\* the caller has the result; the client is ready for the next call
call_over ==
    /\ pc = "done"
    /\ pc' = "idle"
    /\ no_retry' = FALSE
    /\ max_attempts' = 0
    /\ attempt' = 0
    /\ token' = None
    /\ headers' = None
    /\ sentAuth' = <<>>
    /\ cbCalls' = 0
    /\ outcome' = NoOutcome
    /\ history' = <<>>
    /\ waits' = <<>>
    /\ last_error' = None
    /\ result' = NoResult
    /\ UNCHANGED <<client, configVars, cbToken>>

\* the same, nothing else being in use
finish == call_over /\ UNCHANGED auxVars

Next ==
    \/ aenter
    \/ aexit
    \/ Rotate
    \/ \E nr \in BOOLEAN : request(nr)
    \/ \E o \in Outcomes : respond(o)
    \/ wake
    \/ finish

Spec == Init /\ [][Next]_vars

(***************************************************************************)
(* auth.py: the TokenManager used directly                                 *)
(***************************************************************************)
\* a variant of set_token that keeps a configured callback
set_token_keeps_callback(t) ==
    /\ pc = "idle"
    /\ static_token' = Some(t)
    /\ lastSet' = Some(t)
    /\ gotSince' = FALSE
    /\ UNCHANGED <<client, retries, retry_config, get_token_fn, cbToken, pc, callVars,
                   calcVars, pageVars, restVars>>

\* TokenManager.set_token(t)
set_token(t) ==
    /\ pc = "idle"
    /\ static_token' = Some(t)
    /\ get_token_fn' = FALSE
    /\ lastSet' = Some(t)
    /\ gotSince' = FALSE
    /\ UNCHANGED <<client, retries, retry_config, cbToken, pc, callVars, calcVars,
                   pageVars, restVars>>

\* a call of TokenManager.get_token(): token is what it returned, cbCalls the
\* invocations of the callback it made
get_token_call ==
    /\ pc = "idle"
    /\ LET got == get_token(static_token, get_token_fn, cbToken)
       IN /\ token' = got.token
          /\ cbCalls' = IF got.called THEN 1 ELSE 0
    /\ gotSince' = TRUE
    /\ UNCHANGED <<client, configVars, cbToken, pc, no_retry, max_attempts, attempt,
                   headers, sentAuth, outcome, history, waits, last_error, result,
                   lastSet, calcVars, pageVars, restVars>>

\* a call of TokenManager.has_auth(): output is what it returned, with the
\* source it was asked about
has_auth_call ==
    /\ pc = "idle"
    /\ output' = [fn |-> "has_auth", value |-> has_auth(static_token, get_token_fn),
                  static |-> static_token, callback |-> get_token_fn,
                  after |-> lastSet]
    /\ output' # output
    /\ UNCHANGED <<vars, tokenVars, input, pageVars, restVars>>

NextToken ==
    \/ \E t \in Tokens : set_token(t)
    \/ get_token_call
    \/ has_auth_call
    \/ Rotate

SpecToken == Init /\ [][NextToken]_allVars

(***************************************************************************)
(* What the specification says, for stating the properties                 *)
(***************************************************************************)
\* maxAttempts = noRetry ? 1 : (configuredRetries + 1)
SpecMaxAttempts == IF no_retry THEN 1 ELSE retries + 1

\* the variant the Error Classifier gives a status
SpecKind(status) ==
    CASE status = 400 -> "ValidationError"
      [] status = 401 -> "AuthenticationError"
      [] status = 403 -> "ForbiddenError"
      [] status = 404 -> "NotFoundError"
      [] status = 429 -> "RateLimitError"
      [] OTHER -> "PokeForgeError"

\* the message the Error Classifier gives a status and a body: title, else
\* detail, else "HTTP <status> error"; an unusable body has neither field
SpecMessage(status, body) ==
    IF body.valid /\ body.title # None /\ body.title # Some("") THEN The(body.title)
    ELSE IF body.valid /\ body.detail # None /\ body.detail # Some("")
         THEN The(body.detail)
    ELSE "HTTP " \o ToString(status) \o " error"

\* nextDelay(attemptNumber, error = null), in milliseconds
SpecDelayNoError(n) ==
    IF retry_config.exponential
    THEN MinOf(retry_config.base_delay * Pow2(n - 1), retry_config.max_delay)
    ELSE retry_config.base_delay

\* a logical call that got past the check of the transport is in progress or over
InCall == pc # "idle" /\ result.error.kind # "RuntimeError"

\* the outcome of the latest attempt is an HTTP response
GotResponse == outcome.type = "response"
Got2xx == GotResponse /\ outcome.resp.status >= 200 /\ outcome.resp.status <= 299
GotHttpError == GotResponse /\ ~Got2xx

\* s is a retried attempt that ended in 429, in a 5xx or in a connectivity failure
Retryable(s) ==
    \/ s.type = "network"
    \/ s.type = "response" /\ (s.status = 429 \/ s.status >= 500)

(***************************************************************************)
(* C1                                                                      *)
(***************************************************************************)
\* C1 as stated: in every logical call the number of physical attempts never
\* exceeds maxAttempts (1 with no_retry, retries + 1 otherwise), and with
\* no_retry a 429, a 5xx or a connectivity failure on the single attempt ends
\* the call with no backoff wait.
C1_AsStated ==
    InCall =>
      /\ attempt <= SpecMaxAttempts
      /\ no_retry => (waits = <<>> /\ (outcome.type # "none" => pc = "done"))

\* C1, amended: the number of physical attempts never exceeds maxAttempts when
\* maxAttempts >= 0 and is zero when maxAttempts is negative; with no_retry a
\* 429, a 5xx or a connectivity failure on the single attempt ends the call
\* with no backoff wait.
C1_AttemptsBounded ==
    InCall =>
      /\ attempt <= (IF SpecMaxAttempts >= 0 THEN SpecMaxAttempts ELSE 0)
      /\ no_retry => (waits = <<>> /\ (outcome.type # "none" => pc = "done"))

C1_Witness ==
    /\ InCall /\ no_retry /\ retries = MaxRetries
    /\ attempt = 1 /\ pc = "done"
    /\ Retryable(Summary(outcome))
    /\ waits = <<>>

(***************************************************************************)
(* C2                                                                      *)
(***************************************************************************)
\* a 429 without Retry-After header, or a status >= 500
C2_Answer(s) ==
    /\ s.type = "response"
    /\ \/ s.status = 429 /\ s.retry_after = None
       \/ s.status >= 500

\* C2: if every attempt of a call is answered with 429 (without Retry-After)
\* or with a status >= 500, retries = R >= 0 and no_retry is unset, then the
\* call makes exactly R + 1 attempts and fails with the classified error of the
\* last response (RateLimit for 429, the generic error with the 5xx status).
C2_ExactlyRPlusOne ==
    ( /\ InCall /\ pc = "done" /\ ~no_retry /\ retries >= 0
      /\ \A i \in 1..Len(history) : C2_Answer(history[i])
      /\ C2_Answer(Summary(outcome)) )
    => /\ attempt = retries + 1
       /\ result.type = "raise"
       /\ result.error.kind = SpecKind(outcome.resp.status)
       /\ result.error.status = outcome.resp.status

(***************************************************************************)
(* C3                                                                      *)
(***************************************************************************)
\* C3: a transport-level timeout on attempt k ends the call at once with a
\* Timeout error: no backoff wait follows it and attempt k+1 is never issued.
C3_TimeoutEndsCall ==
    (InCall /\ outcome.type = "timeout") =>
      /\ pc = "done"
      /\ result.type = "raise"
      /\ result.error.kind = "TimeoutError"
      /\ Len(waits) = attempt - 1
      /\ Len(history) = attempt - 1

C3_Witness ==
    /\ InCall /\ outcome.type = "timeout" /\ pc = "done"
    /\ attempt = 2 /\ SpecMaxAttempts = 3
    /\ result.error.kind = "TimeoutError"

(***************************************************************************)
(* C4                                                                      *)
(***************************************************************************)
\* C4: a non-2xx response with a status below 500 other than 429 on attempt k
\* ends the call on that attempt with the classified error, even when attempts
\* remain: no backoff wait and no attempt k+1 follow.
C4_ClientErrorEndsCall ==
    ( /\ InCall /\ GotHttpError
      /\ outcome.resp.status < 500 /\ outcome.resp.status # 429 )
    => /\ pc = "done"
       /\ Len(waits) = attempt - 1
       /\ result.type = "raise"
       /\ result.error.kind = SpecKind(outcome.resp.status)
       /\ result.error.status = outcome.resp.status

(***************************************************************************)
(* C5                                                                      *)
(***************************************************************************)
\* C5: a connectivity failure on attempt k is retried when k < maxAttempts,
\* after a wait computed from the attempt number k with no error passed; when
\* k = maxAttempts the call fails with a Network error whose cause is the
\* transport exception.
C5_NetworkRetried ==
    InCall =>
      /\ \A k \in 1..Len(history) :
           history[k].type = "network" =>
             k < SpecMaxAttempts /\ waits[k] = SpecDelayNoError(k)
      /\ outcome.type = "network" =>
           IF attempt < SpecMaxAttempts
           THEN /\ pc = "sleeping"
                /\ Len(waits) = attempt
                /\ waits[attempt] = SpecDelayNoError(attempt)
           ELSE /\ pc = "done"
                /\ result.type = "raise"
                /\ result.error.kind = "NetworkError"
                /\ result.error.cause = "httpx.NetworkError"
                /\ Len(waits) = attempt - 1

C5_Witness ==
    /\ InCall /\ pc = "done" /\ outcome.type = "network"
    /\ attempt = 3 /\ SpecMaxAttempts = 3
    /\ history[1].type = "network" /\ history[2].type = "network"
    /\ waits[2] > waits[1]
    /\ result.error.kind = "NetworkError"

(***************************************************************************)
(* C6                                                                      *)
(***************************************************************************)
\* C6: each physical attempt other than the first is preceded by an attempt
\* that ended in a 429, a status >= 500 or a connectivity failure; no attempt
\* follows a 2xx response, a timeout, a non-429 4xx response or an unexpected
\* failure.
C6_RetriesConfined ==
    InCall =>
      /\ attempt >= 1 => Len(history) = attempt - 1
      /\ \A k \in 1..Len(history) : Retryable(history[k])
      /\ (outcome.type # "none" /\ ~Retryable(Summary(outcome))) => pc = "done"

C6_Witness ==
    /\ InCall /\ attempt = 3 /\ pc = "sending"
    /\ history[1].type = "network"
    /\ history[2].type = "response" /\ history[2].status = 429

(***************************************************************************)
(* C7                                                                      *)
(***************************************************************************)
\* C7: when a call fails because of a non-2xx response, the error raised has
\* the kind, status and message classification gives for that response, and is
\* never replaced by a Network or generic error, for every response body and
\* every Retry-After value.
C7_ClassifiedErrorSurfaces ==
    (InCall /\ pc = "done" /\ GotHttpError) =>
      /\ result.type = "raise"
      /\ result.error.kind = SpecKind(outcome.resp.status)
      /\ result.error.status = outcome.resp.status
      /\ result.error.message = SpecMessage(outcome.resp.status, outcome.resp.body)

(***************************************************************************)
(* C8                                                                      *)
(***************************************************************************)
\* the client's token source is the DynamicAuth callback
UsesCallback == get_token_fn /\ ~TruthyStr(static_token)

\* C8: with a token callback, the callback is consulted once for every physical
\* attempt of a call, retries included, and attempt k carries the token the
\* callback returns at the time of attempt k.
C8_CallbackPerAttempt ==
    [][ (UsesCallback /\ client /\ attempt' = attempt + 1) =>
          /\ cbCalls' = cbCalls + 1
          /\ sentAuth'[attempt'] =
               (IF cbToken # None /\ cbToken # Some("")
                THEN Some("Bearer " \o The(cbToken)) ELSE None) ]_vars

(***************************************************************************)
(* C9                                                                      *)
(***************************************************************************)
\* C9 as stated: a physical attempt carries Authorization: Bearer <token> if and
\* only if the token provider yields a non-null token for it, the empty string
\* included; no Authorization header is sent when the provider yields null.
C9_AsStated ==
    InCall =>
      \A k \in 1..Len(sentAuth) :
        sentAuth[k] = (IF token # None THEN Some("Bearer " \o The(token)) ELSE None)

\* C9, amended: a physical attempt carries Authorization: Bearer <token> if and
\* only if the token the provider yielded to _build_headers is neither null nor
\* the empty string; for null and for the empty string no Authorization header
\* is sent.
C9_BearerIffToken ==
    InCall =>
      /\ Len(sentAuth) = attempt
      /\ \A k \in 1..Len(sentAuth) :
           sentAuth[k] = (IF token # None /\ token # Some("")
                          THEN Some("Bearer " \o The(token)) ELSE None)

C9_Witness ==
    /\ InCall /\ attempt = 2
    /\ token = Some("")
    /\ sentAuth = <<None, None>>

(***************************************************************************)
(* C10                                                                     *)
(***************************************************************************)
\* C10: on a 2xx response the call ends on that attempt and returns null for
\* status 204, the parsed JSON body when the content type contains
\* application/json, and null for any other 2xx response, whatever attempts
\* failed before it. (A body that does not parse has no parsed value: the call
\* still ends on that attempt.)
C10_SuccessValue ==
    (InCall /\ Got2xx) =>
      /\ pc = "done"
      /\ Len(history) = attempt - 1
      /\ outcome.resp.status = 204 => result = Return(None)
      /\ ( /\ outcome.resp.status # 204
           /\ \E i \in 1..Len(outcome.resp.ctype) :
                outcome.resp.ctype[i] = "application/json"
           /\ outcome.resp.body.json )
         => result = Return(Some(outcome.resp.body))
      /\ ( /\ outcome.resp.status # 204
           /\ ~\E i \in 1..Len(outcome.resp.ctype) :
                 outcome.resp.ctype[i] = "application/json" )
         => result = Return(None)

C10_Witness ==
    /\ InCall /\ Got2xx /\ pc = "done"
    /\ Len(history) = 2
    /\ outcome.resp.status = 200
    /\ outcome.resp.ctype = <<"application/json", "; charset=utf-8">>
    /\ result.type = "return"
    /\ result.value = Some(Problem(Some("the title"), Some("the detail")))

(***************************************************************************)
(* errors.py and http.py: the pure functions evaluated one at a time       *)
(***************************************************************************)
\* largest attempt number a delay is computed for
MaxAttemptNo == 4

\* the HTTP client and its TokenManager are not in use
Unused ==
    /\ client = FALSE
    /\ retries = 0
    /\ retry_config = DefaultRetryConfig
    /\ static_token = None
    /\ get_token_fn = FALSE
    /\ cbToken = None
    /\ pc = "idle"
    /\ CallReset
    /\ TokenReset

\* the responses classified: every status with every body, and 429 with
\* every Retry-After header
CalcStatuses == ErrorStatuses \cup {200, 422, 502}
CalcRetryAfter == RetryAfterHeaders \cup {Some("5")}
CalcResponses ==
    { [status |-> st, ctype |-> <<"application/json">>, body |-> b,
       retry_after |-> None] : st \in CalcStatuses, b \in Bodies }
    \cup
    { [status |-> st, ctype |-> <<"application/json">>, body |-> b,
       retry_after |-> h] :
        st \in {429, 503}, b \in {Problem(Some("the title"), None), NoJson, JsonArray},
        h \in CalcRetryAfter }

\* resp: a response; rc, n: the RetryConfig and the attempt number of
\* _calculate_delay; pass_error: whether the error made from resp is passed
CalcInputs ==
    { [fn |-> "input", resp |-> r, rc |-> c, n |-> k, pass_error |-> e] :
        r \in CalcResponses, c \in RetryConfigs, k \in 1..MaxAttemptNo,
        e \in BOOLEAN }

InitCalc ==
    /\ Unused
    /\ RestReset
    /\ PageReset
    /\ input \in CalcInputs
    /\ output = NoOutput

\* PokeForgeError.from_response(status, body) on the parsed body of the response
do_from_response ==
    /\ output = NoOutput
    /\ LET made == from_response(input.resp.status, ParsedBody(input.resp))
       IN output' = [fn |-> "from_response", raised |-> made.raised,
                     error |-> made.error]
    /\ UNCHANGED <<vars, tokenVars, restVars, pageVars, input>>

\* HttpClient._handle_error_response(response)
do_handle_error_response ==
    /\ output = NoOutput
    /\ LET made == handle_error_response(input.resp)
       IN output' = [fn |-> "handle_error_response", raised |-> made.raised,
                     error |-> made.error]
    /\ UNCHANGED <<vars, tokenVars, restVars, pageVars, input>>

\* the error _calculate_delay is called with: None, or the one
\* _handle_error_response returned for the response
PassedError ==
    IF input.pass_error /\ handle_error_response(input.resp).raised = ""
    THEN Some(handle_error_response(input.resp).error)
    ELSE None

\* HttpClient._calculate_delay(n, error), and the same for the attempt after
do_calculate_delay ==
    /\ output = NoOutput
    /\ output' = [fn |-> "calculate_delay", error |-> PassedError,
                  delay |-> calculate_delay(input.rc, input.n, PassedError),
                  after |-> calculate_delay(input.rc, input.n + 1, PassedError)]
    /\ UNCHANGED <<vars, tokenVars, restVars, pageVars, input>>

NextCalc ==
    \/ do_from_response
    \/ do_handle_error_response
    \/ do_calculate_delay

SpecCalc == InitCalc /\ [][NextCalc]_allVars

(***************************************************************************)
(* pagination.py: the methods of one Page, the fetcher answering each call *)
(***************************************************************************)
\* most calls of the fetcher within one to_list
MaxFetches == 3

\* the items of a page: count items, each known by its page and its place
Items(p, count) == [i \in 1..count |-> <<p, i>>]

\* Page(data, PageInfo(...), fetcher)
MkPage(p, count, ps, hn, hp) ==
    [data |-> Items(p, count),
     pagination |-> [page |-> p, page_size |-> ps, total_count |-> 3,
                     total_pages |-> 3, has_next |-> hn, has_previous |-> hp]]

\* the Pages a method is called on
StartPages ==
    { MkPage(p, count, ps, hn, hp) :
        p \in {1, 2}, count \in {0, 1}, ps \in {1, 2},
        hn \in BOOLEAN, hp \in BOOLEAN }

\* what awaiting the fetcher gives: a Page (of any number, size and has_next,
\* as the server says), None, or an exception
FetchedPages ==
    { MkPage(p, count, ps, hn, p > 1) :
        p \in {2, 3}, count \in {0, 1, 2}, ps \in {1, 2}, hn \in BOOLEAN }
\* the exceptions a fetcher is seen to raise: an API error and a timeout
FetcherErrors ==
    { Error("NotFoundError", 404, "HTTP 404 error"),
      [Error("TimeoutError", 0, "Request timed out after <timeout>s")
       EXCEPT !.cause = "httpx.TimeoutException"] }
FetchResults ==
    { [type |-> "page", page |-> pg, error |-> NoError] : pg \in FetchedPages }
    \cup { [type |-> "none", page |-> NoPage, error |-> NoError] }
    \cup { [type |-> "raise", page |-> NoPage, error |-> e] : e \in FetcherErrors }

\* the arguments of go_to_page
PageArgs == {0 - 1, 0, 1, 2, 4}

\* a variant of NextArgs that skips a page
NextArgs_skipping(pg) == <<pg.pagination.page + 2, pg.pagination.page_size>>

\* the arguments next_page and previous_page of Page pg give the fetcher
NextArgs(pg) == <<pg.pagination.page + 1, pg.pagination.page_size>>
PreviousArgs(pg) == <<pg.pagination.page - 1, pg.pagination.page_size>>

\* a method returned page (None or a Page), returned the list items, raised
ReturnPage(o) == [type |-> "return", page |-> o, items |-> <<>>]
ReturnList(items) == [type |-> "list", page |-> None, items |-> items]
\* a variant of Raised that raises a Network error in place of e
Raised_wrapped(e) ==
    [type |-> "raise", page |-> None, items |-> <<>>,
     error |-> Error("NetworkError", 0, "Unexpected error: " \o e.kind)]

\* the method raised e
Raised(e) == [type |-> "raise", page |-> None, items |-> <<>>, error |-> e]

InitPage ==
    /\ Unused
    /\ RestReset
    /\ CalcReset
    /\ self \in StartPages
    /\ op = "none"
    /\ ppc = "idle"
    /\ fetches = <<>>
    /\ pages = <<>>
    /\ current_page = None
    /\ all_items = <<>>
    /\ ret = NoReturn
    /\ yielded = <<>>
    /\ at = 0
    /\ earlier = "none"

\* a variant of next_page that asks for this page again
next_page_same_page ==
    /\ ppc = "idle"
    /\ op' = "next_page"
    /\ IF ~self.pagination.has_next
       THEN /\ ret' = ReturnPage(None)
            /\ ppc' = "done"
            /\ UNCHANGED fetches
       ELSE /\ fetches' = << <<self.pagination.page, self.pagination.page_size>> >>
            /\ ppc' = "fetching"
            /\ UNCHANGED ret
    /\ UNCHANGED <<vars, tokenVars, restVars, calcVars, self, pages, current_page, all_items, iterVars>>

\* Page.next_page up to the await of the fetcher
next_page ==
    /\ ppc = "idle"
    /\ op' = "next_page"
    /\ IF ~self.pagination.has_next
       THEN /\ ret' = ReturnPage(None)
            /\ ppc' = "done"
            /\ UNCHANGED fetches
       ELSE /\ fetches' = <<NextArgs(self)>>
            /\ ppc' = "fetching"
            /\ UNCHANGED ret
    /\ UNCHANGED <<vars, tokenVars, restVars, calcVars, self, pages, current_page, all_items, iterVars>>

\* a variant of previous_page that fetches whatever has_previous is
previous_page_always ==
    /\ ppc = "idle"
    /\ op' = "previous_page"
    /\ fetches' = <<PreviousArgs(self)>>
    /\ ppc' = "fetching"
    /\ UNCHANGED ret
    /\ UNCHANGED <<vars, tokenVars, restVars, calcVars, self, pages, current_page, all_items, iterVars>>

\* Page.previous_page up to the await of the fetcher
previous_page ==
    /\ ppc = "idle"
    /\ op' = "previous_page"
    /\ IF ~self.pagination.has_previous
       THEN /\ ret' = ReturnPage(None)
            /\ ppc' = "done"
            /\ UNCHANGED fetches
       ELSE /\ fetches' = <<PreviousArgs(self)>>
            /\ ppc' = "fetching"
            /\ UNCHANGED ret
    /\ UNCHANGED <<vars, tokenVars, restVars, calcVars, self, pages, current_page, all_items, iterVars>>

\* a variant of go_to_page that rejects a page below 1
go_to_page_checked(n) ==
    /\ ppc = "idle"
    /\ op' = "go_to_page"
    /\ input' = [fn |-> "go_to_page", page |-> n]
    /\ IF n < 1
       THEN /\ ret' = Raised(Error("ValueError", 0, "page must be positive"))
            /\ ppc' = "done"
            /\ UNCHANGED fetches
       ELSE /\ fetches' = << <<n, self.pagination.page_size>> >>
            /\ ppc' = "fetching"
            /\ UNCHANGED ret
    /\ UNCHANGED <<vars, tokenVars, restVars, output, self, pages, current_page, all_items, iterVars>>

\* Page.go_to_page(n) up to the await of the fetcher
go_to_page(n) ==
    /\ ppc = "idle"
    /\ op' = "go_to_page"
    /\ input' = [fn |-> "go_to_page", page |-> n]
    /\ fetches' = << <<n, self.pagination.page_size>> >>
    /\ ppc' = "fetching"
    /\ UNCHANGED ret
    /\ UNCHANGED <<vars, tokenVars, restVars, output, self, pages, current_page, all_items, iterVars>>

\* a variant of LoopGoesOn that stops at the page numbered total_pages
LoopGoesOn_within_total(cur) ==
    /\ cur # None
    /\ The(cur).pagination.has_next
    /\ The(cur).pagination.page < The(cur).pagination.total_pages

\* a variant of LoopGoesOn that leaves the loop after two fetches
LoopGoesOn_twice(cur) == cur # None /\ The(cur).pagination.has_next /\ pages = <<>>

\* the test of the while loop of to_list on current_page cur
LoopGoesOn(cur) == cur # None /\ The(cur).pagination.has_next

\* a variant of to_list that moves the items out of the Page
to_list_moving ==
    /\ ppc = "idle"
    /\ op' = "to_list"
    /\ all_items' = self.data
    /\ self' = [self EXCEPT !.data = <<>>]
    /\ current_page' = Some(self')
    /\ IF LoopGoesOn(Some(self))
       THEN /\ fetches' = <<NextArgs(self)>>
            /\ ppc' = "fetching"
            /\ UNCHANGED ret
       ELSE /\ ret' = ReturnList(self.data)
            /\ ppc' = "done"
            /\ UNCHANGED fetches
    /\ UNCHANGED <<vars, tokenVars, restVars, calcVars, pages, iterVars>>

\* Page.to_list up to the first await of the fetcher, or to its return
to_list ==
    /\ ppc = "idle"
    /\ op' = "to_list"
    /\ all_items' = self.data
    /\ current_page' = Some(self)
    /\ IF LoopGoesOn(Some(self))
       THEN /\ fetches' = <<NextArgs(self)>>
            /\ ppc' = "fetching"
            /\ UNCHANGED ret
       ELSE /\ ret' = ReturnList(self.data)
            /\ ppc' = "done"
            /\ UNCHANGED fetches
    /\ UNCHANGED <<vars, tokenVars, restVars, calcVars, self, pages, iterVars>>

\* most calls of the fetcher within one run of method: an iteration, whose
\* every item is a step, is followed over one page less than to_list
FetchesOf(method) == IF method = "iter" THEN MaxFetches - 1 ELSE MaxFetches

\* an iteration ended: StopAsyncIteration
Stopped == [type |-> "stop", page |-> None, items |-> <<>>]

\* Page.__aiter__: the generator of _async_iter is made, nothing of it ran
aiter ==
    /\ ppc = "idle"
    /\ op' = "iter"
    /\ ppc' = "yielding"
    /\ yielded' = <<>>
    /\ at' = 0
    /\ UNCHANGED <<vars, tokenVars, restVars, calcVars, self, fetches, pages, current_page,
                   all_items, ret, earlier>>

\* a variant of Looped that goes over the first page's items every time
Looped_first_page == self.data

\* a variant of Looped that leaves out the first item of every fetched page
Looped_without_first ==
    IF current_page = None THEN self.data
    ELSE SubSeq(The(current_page).data, 2, Len(The(current_page).data))

\* the list a for loop of _async_iter goes over: self._data before
\* current_page is assigned, current_page._data after
Looped == IF current_page = None THEN self.data ELSE The(current_page).data

\* _async_iter runs on to its next yield, to its next await of the fetcher,
\* or to its end
anext ==
    /\ op = "iter"
    /\ ppc = "yielding"
    /\ IF at < Len(Looped)
       THEN /\ yielded' = Append(yielded, Looped[at + 1])
            /\ at' = at + 1
            /\ UNCHANGED <<ppc, fetches, current_page, ret>>
       ELSE LET cur == IF current_page = None THEN Some(self) ELSE current_page
            IN /\ current_page' = cur
               /\ IF LoopGoesOn(cur)
                  THEN /\ fetches' = Append(fetches, NextArgs(The(cur)))
                       /\ ppc' = "fetching"
                       /\ UNCHANGED ret
                  ELSE /\ ret' = Stopped
                       /\ ppc' = "done"
                       /\ UNCHANGED fetches
               /\ UNCHANGED <<yielded, at>>
    /\ UNCHANGED <<vars, tokenVars, restVars, calcVars, self, op, pages, all_items, earlier>>

\* the awaited fetcher answers r: next_page, previous_page and go_to_page
\* return or raise what it did; to_list and _async_iter go round their loops
fetcher_answers(r) ==
    /\ ppc = "fetching"
    /\ pages' = Append(pages, r)
    /\ IF op \notin {"to_list", "iter"}
       THEN /\ ret' = CASE r.type = "page" -> ReturnPage(Some(r.page))
                        [] r.type = "none" -> ReturnPage(None)
                        [] OTHER -> Raised(r.error)
            /\ ppc' = "done"
            /\ UNCHANGED <<fetches, current_page, all_items, yielded, at>>
       ELSE /\ Len(fetches) < FetchesOf(op)
               \/ r.type # "page"
               \/ ~r.page.pagination.has_next
            /\ IF r.type = "raise"
               THEN /\ ret' = Raised(r.error)
                    /\ ppc' = "done"
                    /\ UNCHANGED <<fetches, current_page, all_items, yielded, at>>
               ELSE LET cur == IF r.type = "page" THEN Some(r.page) ELSE None
                        all == IF cur # None THEN all_items \o The(cur).data
                               ELSE all_items
                    IN /\ current_page' = cur
                       /\ IF op = "to_list"
                          THEN /\ all_items' = all
                               /\ IF LoopGoesOn(cur)
                                  THEN /\ fetches' = Append(fetches, NextArgs(The(cur)))
                                       /\ UNCHANGED <<ppc, ret>>
                                  ELSE /\ ret' = ReturnList(all)
                                       /\ ppc' = "done"
                                       /\ UNCHANGED fetches
                               /\ UNCHANGED <<yielded, at>>
                          ELSE /\ IF cur # None
                                  THEN /\ at' = 0
                                       /\ ppc' = "yielding"
                                       /\ UNCHANGED ret
                                  ELSE /\ ret' = Stopped
                                       /\ ppc' = "done"
                                       /\ UNCHANGED at
                               /\ UNCHANGED <<fetches, all_items, yielded>>
    /\ UNCHANGED <<tokenVars, restVars, calcVars, self, op, earlier>>

\* the same, the fetcher being any function
fetched(r) == fetcher_answers(r) /\ UNCHANGED vars

\* the caller is ready for another call on the same Page: the method ended,
\* or the caller left the iteration at an item and dropped the generator
again ==
    /\ ppc = "done" \/ (op = "iter" /\ ppc = "yielding")
    /\ earlier' = IF op = "iter" /\ ppc = "yielding" THEN "left"
                  ELSE IF op \in {"to_list", "iter"} THEN "ended"
                  ELSE earlier
    /\ op' = "none"
    /\ ppc' = "idle"
    /\ fetches' = <<>>
    /\ pages' = <<>>
    /\ current_page' = None
    /\ all_items' = <<>>
    /\ ret' = NoReturn
    /\ yielded' = <<>>
    /\ at' = 0
    /\ input' = NoInput
    /\ UNCHANGED <<vars, tokenVars, restVars, output, self>>

NextPage ==
    \/ next_page
    \/ previous_page
    \/ \E n \in PageArgs : go_to_page(n)
    \/ to_list
    \/ aiter
    \/ anext
    \/ \E r \in FetchResults : fetched(r)
    \/ again

SpecPage == InitPage /\ [][NextPage]_allVars

\* the fetcher answers every call (a logical call of the client ends), and a
\* generator that can run on is run on unless the caller drops it
SpecPageLive ==
    /\ InitPage
    /\ [][NextPage]_allVars
    /\ WF_allVars(\E r \in FetchResults : fetched(r))
    /\ WF_allVars(anext)

(***************************************************************************)
(* resources/: a Page whose fetcher is the list method of a resource, each *)
(* fetch being a logical call of the HttpClient                            *)
(***************************************************************************)
\* what the transport does in an attempt of a page fetch: a page of JSON, a
\* 2xx without JSON, a 404, a 503, a connectivity failure
WalkOutcomes ==
    { [type |-> "response",
       resp |-> [status |-> st, ctype |-> c,
                 body |-> Problem(Some("the title"), Some("the detail")),
                 retry_after |-> None]] :
        st \in {200, 404, 503}, c \in {<<"application/json">>} }
    \cup
    { [type |-> "response",
       resp |-> [status |-> 200, ctype |-> <<"text/html">>, body |-> NoJson,
                 retry_after |-> None]],
      [type |-> "network", resp |-> NoResponse] }

\* what the fetcher of a list method gives for the result res of its
\* self._http.get: _create_paged_response makes a Page of a decoded body (of
\* the number and has_next the body tells), response.get raises on None, and
\* an error of the call goes through
WalkResults(res) ==
    IF res.type = "return" /\ res.value # None
    THEN { [type |-> "page", page |-> MkPage(p, 1, 1, hn, p > 1), error |-> NoError] :
             p \in {2, 3}, hn \in BOOLEAN }
    ELSE IF res.type = "return"
    THEN { [type |-> "raise", page |-> NoPage,
            error |-> Error("AttributeError", 0,
                            "'NoneType' object has no attribute 'get'")] }
    ELSE { [type |-> "raise", page |-> NoPage, error |-> res.error] }

\* an open client without credentials and a first Page that reports a next one
InitWalk ==
    /\ client = TRUE
    /\ retries \in {0, 1}
    /\ retry_config = DefaultRetryConfig
    /\ static_token = None
    /\ get_token_fn = FALSE
    /\ cbToken = None
    /\ pc = "idle"
    /\ CallReset
    /\ TokenReset
    /\ RestReset
    /\ CalcReset
    /\ self \in { MkPage(p, 1, 1, TRUE, hp) : p \in {1, 2}, hp \in BOOLEAN }
    /\ op = "none"
    /\ ppc = "idle"
    /\ fetches = <<>>
    /\ pages = <<>>
    /\ current_page = None
    /\ all_items = <<>>
    /\ ret = NoReturn
    /\ yielded = <<>>
    /\ at = 0
    /\ earlier = "none"

\* the fetcher calls self.list(new_opts), which awaits self._http.get
fetch_request ==
    /\ ppc = "fetching"
    /\ request(FALSE)

\* an attempt of that call ends
fetch_respond(o) ==
    /\ ppc = "fetching"
    /\ respond(o)

\* the call is over and the fetcher returns or raises
fetch_return(r) ==
    /\ pc = "done"
    /\ r \in WalkResults(result)
    /\ fetcher_answers(r)
    /\ call_over

NextWalk ==
    \/ to_list
    \/ aiter
    \/ anext
    \/ fetch_request
    \/ \E o \in WalkOutcomes : fetch_respond(o)
    \/ wake
    \/ \E r \in WalkResults(result) : fetch_return(r)

SpecWalk == InitWalk /\ [][NextWalk]_allVars

(***************************************************************************)
(* pagination.py and resources/: create_page and the get-by-id methods     *)
(***************************************************************************)
\* a pagination block of a response: a field is None when the block has no
\* such key
PaginationBlocks ==
    [page : {None, Some(1), Some(2), Some(3)},
     pageSize : {None, Some(1), Some(2)},
     totalCount : {None, Some(5)},
     totalPages : {None, Some(1), Some(3)},
     hasNext : {None, Some(TRUE), Some(FALSE)},
     hasPrevious : {None, Some(TRUE), Some(FALSE)}]

\* Python truthiness of a pagination block: a dict with no key is falsy
TruthyBlock(b) ==
    \E k \in {"page", "pageSize", "totalCount", "totalPages", "hasNext",
              "hasPrevious"} : b[k] # None

\* pagination_info.get(key, default) if pagination_info else default
GetOr(info, key, default) ==
    IF info # None /\ TruthyBlock(The(info)) /\ The(info)[key] # None
    THEN The(The(info)[key])
    ELSE default

\* a variant of create_page whose default of total_pages is the page number
create_page_total_is_page(data, info) ==
    [data |-> data,
     pagination |->
       [page |-> GetOr(info, "page", 1),
        page_size |-> GetOr(info, "pageSize", Len(data)),
        total_count |-> GetOr(info, "totalCount", Len(data)),
        total_pages |-> GetOr(info, "totalPages", GetOr(info, "page", 1)),
        has_next |-> GetOr(info, "hasNext", FALSE),
        has_previous |-> GetOr(info, "hasPrevious", FALSE)]]

\* create_page(data, pagination_info, fetcher): the Page, its fetcher left out
create_page(data, info) ==
    [data |-> data,
     pagination |->
       [page |-> GetOr(info, "page", 1),
        page_size |-> GetOr(info, "pageSize", Len(data)),
        total_count |-> GetOr(info, "totalCount", Len(data)),
        total_pages |-> GetOr(info, "totalPages", 1),
        has_next |-> GetOr(info, "hasNext", FALSE),
        has_previous |-> GetOr(info, "hasPrevious", FALSE)]]

\* the decoded body of a 2xx response as a get-by-id method sees it: its JSON
\* shape, its truthiness, and its data field (None when there is no such
\* key; else whether the value is truthy and whether it validates as the record)
DataValues == { [truthy |-> FALSE, valid |-> FALSE],
                [truthy |-> TRUE, valid |-> TRUE],
                [truthy |-> TRUE, valid |-> FALSE] }
DecodedBodies ==
    { [shape |-> "null", truthy |-> FALSE, data |-> None],
      [shape |-> "object", truthy |-> FALSE, data |-> None],
      [shape |-> "object", truthy |-> TRUE, data |-> None],
      [shape |-> "array", truthy |-> FALSE, data |-> None],
      [shape |-> "array", truthy |-> TRUE, data |-> None] }
    \cup { [shape |-> "object", truthy |-> TRUE, data |-> Some(d)] : d \in DataValues }

\* the get-by-id and get-by-slug methods and the message of their NotFoundError
GetMethods == {"cards.get", "sets.get", "sets.get_by_slug", "collections.get"}
NotFoundMessage(method) ==
    CASE method = "cards.get" -> "Card not found"
      [] method = "collections.get" -> "Collection not found"
      [] OTHER -> "Set not found"

\* a variant of get that validates whatever data field there is
get_unchecked(method, response) ==
    IF ~response.truthy
    THEN [raised |-> "NotFoundError", returned |-> FALSE,
          error |-> Error("NotFoundError", 404, NotFoundMessage(method))]
    ELSE IF response.shape # "object" \/ response.data = None
    THEN [raised |-> "AttributeError", returned |-> FALSE, error |-> NoError]
    ELSE IF The(response.data).valid \/ ~The(response.data).truthy
    THEN [raised |-> "", returned |-> TRUE, error |-> NoError]
    ELSE [raised |-> "pydantic.ValidationError", returned |-> FALSE, error |-> NoError]

\* CardsResource.get, SetsResource.get, SetsResource.get_by_slug and
\* CollectionsResource.get after the await of self._http.get: response is
\* what it returned
get(method, response) ==
    IF ~response.truthy
    THEN [raised |-> "NotFoundError", returned |-> FALSE,
          error |-> Error("NotFoundError", 404, NotFoundMessage(method))]
    ELSE IF response.shape # "object"
    THEN [raised |-> "AttributeError", returned |-> FALSE, error |-> NoError]
    ELSE IF response.data = None \/ ~The(response.data).truthy
    THEN [raised |-> "NotFoundError", returned |-> FALSE,
          error |-> Error("NotFoundError", 404, NotFoundMessage(method))]
    ELSE IF The(response.data).valid
    THEN [raised |-> "", returned |-> TRUE, error |-> NoError]
    ELSE [raised |-> "pydantic.ValidationError", returned |-> FALSE, error |-> NoError]

\* the lists of items a Page is made of
ItemLists == { <<>>, <<"a">>, <<"a", "b">> }

ResourceInputs ==
    { [fn |-> "create_page", data |-> d, info |-> i] :
        d \in ItemLists, i \in {None} \cup { Some(b) : b \in PaginationBlocks } }
    \cup
    { [fn |-> "get", method |-> m, response |-> r] :
        m \in GetMethods, r \in DecodedBodies }

InitResource ==
    /\ Unused
    /\ RestReset
    /\ PageReset
    /\ input \in ResourceInputs
    /\ output = NoOutput

do_create_page ==
    /\ input.fn = "create_page"
    /\ output = NoOutput
    /\ output' = [fn |-> "create_page", page |-> create_page(input.data, input.info)]
    /\ UNCHANGED <<vars, tokenVars, restVars, pageVars, input>>

do_get ==
    /\ input.fn = "get"
    /\ output = NoOutput
    /\ LET got == get(input.method, input.response)
       IN output' = [fn |-> "get", raised |-> got.raised, returned |-> got.returned,
                     error |-> got.error]
    /\ UNCHANGED <<vars, tokenVars, restVars, pageVars, input>>

NextResource ==
    \/ do_create_page
    \/ do_get

SpecResource == InitResource /\ [][NextResource]_allVars

(***************************************************************************)
(* http.py: logical calls of several tasks on one client, interleaved at   *)
(* the awaits of HttpClient.request                                        *)
(***************************************************************************)
\* what the transport answers to an attempt of a task
TaskOutcomes ==
    { [type |-> "response",
       resp |-> [status |-> st, ctype |-> <<"application/json">>,
                 body |-> Problem(Some("the title"), Some("the detail")),
                 retry_after |-> ra]] :
        st \in {200, 503}, ra \in {None} }
    \cup
    { [type |-> "response",
       resp |-> [status |-> 429, ctype |-> <<"application/json">>,
                 body |-> Problem(Some("the title"), None), retry_after |-> Some("2")]],
      [type |-> "network", resp |-> NoResponse],
      [type |-> "timeout", resp |-> NoResponse] }

\* the tokens set_token is called with, and what the callback returns
SetTokens == {"", "tokB"}
TaskCallbackResults == {None, Some("tokC")}

\* the client is entered; a static token, a callback, or no auth
InitTasks ==
    /\ client = TRUE
    /\ retries \in {0, 1}
    /\ retry_config = DefaultRetryConfig
    /\ \E a \in {"none", "static", "dynamic"} :
         /\ static_token = IF a = "static" THEN Some("tokA") ELSE None
         /\ get_token_fn = (a = "dynamic")
         /\ cbToken \in IF a = "dynamic" THEN TaskCallbackResults ELSE {None}
    /\ everCurrent = static_token \cup cbToken
    /\ calls = [t \in Tasks |-> NoCall]
    /\ pc = "idle"
    /\ CallReset
    /\ TokenReset
    /\ CalcReset
    /\ PageReset
    /\ ListReset
    /\ ScopeReset

\* lines 70-84 once _build_headers has the token tok
Started(c, nr, tok) ==
    LET max == MaxAttemptsOf(nr, retries)
        h == build_headers(tok)
    IN IF max >= 1
       THEN [c EXCEPT !.pc = "sending", !.no_retry = nr, !.max_attempts = max,
                      !.headers = h, !.attempt = 1, !.sent = <<h>>]
       ELSE [c EXCEPT !.pc = "done", !.no_retry = nr, !.max_attempts = max,
                      !.headers = h,
                      !.result = Raise(Error("NetworkError", 0,
                                             "Request failed after retries"))]

\* task t calls request: up to the await of the callback's coroutine when
\* get_token reaches the callback (auth.py:28-31), else up to the await of
\* the transport
task_request(t, nr) ==
    /\ calls[t].pc = "idle"
    /\ calls' =
         [calls EXCEPT ![t] =
            IF ~client
            THEN [@ EXCEPT !.pc = "done", !.no_retry = nr,
                           !.result = Raise(Error("RuntimeError", 0,
                               "HttpClient must be used as async context manager"))]
            ELSE IF ~TruthyStr(static_token) /\ get_token_fn
            THEN [@ EXCEPT !.pc = "token", !.no_retry = nr, !.since = lastSet]
            ELSE Started([@ EXCEPT !.since = lastSet], nr,
                         get_token(static_token, get_token_fn, cbToken).token)]
    /\ UNCHANGED <<vars, tokenVars, calcVars, pageVars, listVars, scopeVars, everCurrent>>

\* the callback's coroutine of task t returns what the token source holds now
task_got_token(t) ==
    /\ calls[t].pc = "token"
    /\ calls' = [calls EXCEPT ![t] = Started(@, @.no_retry, cbToken)]
    /\ UNCHANGED <<vars, tokenVars, calcVars, pageVars, listVars, scopeVars, everCurrent>>

\* the transport answers o to the attempt of task t (lines 86-121)
task_respond(t, o) ==
    /\ calls[t].pc = "sending"
    /\ LET c == calls[t]
           st == attempt_step(retry_config, c.attempt, c.max_attempts, o)
       IN calls' =
            [calls EXCEPT ![t] =
               CASE st.next = "return" ->
                      [c EXCEPT !.pc = "done", !.outs = Append(@, o),
                                !.result = Return(st.value)]
                 [] st.next = "raise" ->
                      [c EXCEPT !.pc = "done", !.outs = Append(@, o),
                                !.result = Raise(st.error)]
                 [] OTHER ->
                      [c EXCEPT !.pc = "sleeping", !.outs = Append(@, o),
                                !.waits = Append(@, st.delay)]]
    /\ UNCHANGED <<vars, tokenVars, calcVars, pageVars, listVars, scopeVars, everCurrent>>

\* a variant of task_wake where the attempt counter is one attribute of the
\* client, counted up for every task
task_wake_shared_counter(t) ==
    /\ calls[t].pc = "sleeping"
    /\ calls' =
         [u \in Tasks |->
            IF u = t
            THEN [calls[u] EXCEPT
                    !.pc = "sending", !.attempt = @ + 1,
                    !.sent = Append(@, calls[u].headers),
                    !.last_error = IF calls[u].outs[Len(calls[u].outs)].type = "network"
                                   THEN Some("httpx.NetworkError") ELSE @]
            ELSE IF calls[u].pc \in {"sending", "sleeping"}
            THEN [calls[u] EXCEPT !.attempt = @ + 1]
            ELSE calls[u]]
    /\ UNCHANGED <<vars, tokenVars, calcVars, pageVars, listVars, scopeVars, everCurrent>>

\* asyncio.sleep of task t returns: the next attempt (lines 103, 115-116, 75-84)
task_wake(t) ==
    /\ calls[t].pc = "sleeping"
    /\ calls' =
         [calls EXCEPT ![t] =
            [@ EXCEPT !.pc = "sending", !.attempt = @ + 1,
                      !.sent = Append(@, calls[t].headers),
                      !.last_error = IF calls[t].outs[Len(calls[t].outs)].type = "network"
                                     THEN Some("httpx.NetworkError") ELSE @]]
    /\ UNCHANGED <<vars, tokenVars, calcVars, pageVars, listVars, scopeVars, everCurrent>>

\* task t has the result of its call
task_over(t) ==
    /\ calls[t].pc = "done"
    /\ calls' = [calls EXCEPT ![t] = NoCall]
    /\ UNCHANGED <<vars, tokenVars, calcVars, pageVars, listVars, scopeVars, everCurrent>>

\* a variant of tasks_set_token that keeps a configured callback
tasks_set_token_keeps_callback(tok) ==
    /\ static_token' = Some(tok)
    /\ lastSet' = Some(tok)
    /\ everCurrent' = everCurrent \cup {tok}
    /\ calls' = [t \in Tasks |-> [calls[t] EXCEPT !.since = None]]
    /\ UNCHANGED <<client, retries, retry_config, get_token_fn, cbToken, pc, callVars,
                   gotSince, calcVars, pageVars, listVars, scopeVars>>

\* TokenManager.set_token(tok), whatever the tasks are doing
tasks_set_token(tok) ==
    /\ static_token' = Some(tok)
    /\ get_token_fn' = FALSE
    /\ lastSet' = Some(tok)
    /\ everCurrent' = everCurrent \cup {tok}
    /\ calls' = [t \in Tasks |-> [calls[t] EXCEPT !.since = None]]
    /\ UNCHANGED <<client, retries, retry_config, cbToken, pc, callVars, gotSince,
                   calcVars, pageVars, listVars, scopeVars>>

\* the token source behind the callback moves on
tasks_rotate ==
    /\ get_token_fn
    /\ cbToken' \in TaskCallbackResults \ {cbToken}
    /\ everCurrent' = everCurrent \cup cbToken'
    /\ UNCHANGED <<client, configVars, pc, callVars, tokenVars, calcVars, pageVars,
                   listVars, scopeVars, calls>>

NextTasks ==
    \/ \E t \in Tasks, nr \in BOOLEAN : task_request(t, nr)
    \/ \E t \in Tasks : task_got_token(t)
    \/ \E t \in Tasks, o \in TaskOutcomes : task_respond(t, o)
    \/ \E t \in Tasks : task_wake(t)
    \/ \E t \in Tasks : task_over(t)
    \/ \E tok \in SetTokens : tasks_set_token(tok)
    \/ tasks_rotate

SpecTasks == InitTasks /\ [][NextTasks]_allVars

(***************************************************************************)
(* http.py, client.py: the client as an async context manager, entered and *)
(* exited around logical calls                                             *)
(***************************************************************************)
\* the times one client is entered
MaxEnters == 2

\* what the transport answers to an attempt made inside the context
ScopeOutcomes == WalkOutcomes \cup {[type |-> "timeout", resp |-> NoResponse]}

\* a client that was not entered yet, without auth or with a token callback
InitScope ==
    /\ client = FALSE
    /\ retries \in {0, 1}
    /\ retry_config = DefaultRetryConfig
    /\ static_token = None
    /\ get_token_fn \in BOOLEAN
    /\ cbToken = IF get_token_fn THEN Some("tokA") ELSE None
    /\ pc = "idle"
    /\ CallReset
    /\ TokenReset
    /\ CalcReset
    /\ PageReset
    /\ ListReset
    /\ TaskReset
    /\ transports = <<>>
    /\ ended = {}

\* PokeForgeClient.__aenter__, which is HttpClient.__aenter__: a new
\* httpx.AsyncClient is created and assigned to self._client, whatever
\* self._client held
scope_enter ==
    /\ pc = "idle"
    /\ Len(transports) < MaxEnters
    /\ client' = TRUE
    /\ transports' = Append(transports, "open")
    /\ UNCHANGED <<configVars, cbToken, pc, callVars, tokenVars, calcVars, pageVars,
                   listVars, taskVars, ended>>

\* PokeForgeClient.__aexit__, which is HttpClient.__aexit__ with the same
\* arguments: the transport held, if any, is closed and let go
scope_exit ==
    /\ pc = "idle"
    /\ IF client
       THEN /\ transports' = [transports EXCEPT ![Len(transports)] = "closed"]
            /\ client' = FALSE
       ELSE UNCHANGED <<client, transports>>
    /\ UNCHANGED <<configVars, cbToken, pc, callVars, tokenVars, calcVars, pageVars,
                   listVars, taskVars, ended>>

\* the class of the exception a call ended with, "return" when it returned
EndOf(res) == IF res.type = "raise" THEN res.error.kind ELSE res.type

\* the caller has the result of the call
scope_finish ==
    /\ call_over
    /\ ended' = ended \cup {EndOf(result)}
    /\ UNCHANGED <<tokenVars, calcVars, pageVars, listVars, taskVars, transports>>

NextScope ==
    \/ scope_enter
    \/ scope_exit
    \/ \E nr \in BOOLEAN : request(nr)
    \/ \E o \in ScopeOutcomes : respond(o)
    \/ wake
    \/ scope_finish

SpecScope == InitScope /\ [][NextScope]_allVars

(***************************************************************************)
(* resources/cards.py: list and search, and the fetcher they give the Page *)
(***************************************************************************)
\* the fetches made from the Pages of one original call
MaxHops == 2

\* ListCardsOptions and SearchCardsOptions as one record: q is None in a
\* ListCardsOptions, and a SearchCardsOptions has q and set_id only.
\* series_id, supertype, subtype, pokemon_type and artist_name are passed on
\* exactly as rarity is, and are left out.
ListOptions ==
    { [page |-> 1, page_size |-> ps, set_id |-> sid, rarity |-> None,
       sort_by |-> None, sort_order |-> None, search |-> None, q |-> None] :
        ps \in {1}, sid \in {None, Some("setA")} }
    \cup { [page |-> 2, page_size |-> 2, set_id |-> None, rarity |-> Some("Rare"),
           sort_by |-> Some("name"), sort_order |-> Some("desc"),
           search |-> Some("pika"), q |-> None] }
SearchOptions ==
    { [page |-> 1, page_size |-> 2, set_id |-> sid, rarity |-> None,
       sort_by |-> None, sort_order |-> None, search |-> None, q |-> Some(text)] :
        sid \in {None, Some("setA")}, text \in {"pikachu"} }
Options == ListOptions \cup SearchOptions

\* BaseResource._build_query(**kwargs): the keys whose value is not None
build_query(kwargs) ==
    { <<k, The(kwargs[k])>> : k \in { key \in DOMAIN kwargs : kwargs[key] # None } }

\* the GET that list(o) sends
list_query(o) ==
    [path |-> "/Cards",
     params |-> build_query([page |-> Some(o.page), pageSize |-> Some(o.page_size),
                             setId |-> o.set_id, rarity |-> o.rarity,
                             sortBy |-> o.sort_by, sortOrder |-> o.sort_order,
                             search |-> o.search])]

\* the GET that search(o) sends
search_query(o) ==
    [path |-> "/Cards/search",
     params |-> build_query([q |-> o.q, page |-> Some(o.page),
                             pageSize |-> Some(o.page_size), setId |-> o.set_id])]

\* list or search, by the class of the options
query_of(o) == IF o.q = None THEN list_query(o) ELSE search_query(o)

\* the Pages the endpoint answers with, whatever was asked
ListedPages ==
    { MkPage(1, 0, 1, TRUE, FALSE), MkPage(2, 0, 2, TRUE, TRUE),
      MkPage(3, 0, 2, FALSE, TRUE) }

\* the options object the fetcher of the Page in hand reads when it is
\* called: the caller's object for the Page of the original call (opts is
\* the closure's free variable), new_opts for a Page the fetcher returned
Captured == IF closure.shared THEN opts ELSE closure.opts

Sent(o, via) == [path |-> query_of(o).path, params |-> query_of(o).params, via |-> via]

InitList ==
    /\ Unused
    /\ CalcReset
    /\ PageReset
    /\ TaskReset
    /\ ScopeReset
    /\ opts \in Options
    /\ closure = NoClosure
    /\ queries = <<>>

\* CardsResource.list(opts), the original call
cards_list ==
    /\ queries = <<>>
    /\ opts.q = None
    /\ queries' = <<Sent(opts, NoPage.pagination)>>
    /\ self' \in ListedPages
    /\ closure' = [shared |-> TRUE, opts |-> NoOptions]
    /\ UNCHANGED <<vars, tokenVars, calcVars, taskVars, scopeVars, op, ppc, fetches, pages,
                   current_page, all_items, ret, iterVars, opts>>

\* CardsResource.search(options), the original call
cards_search ==
    /\ queries = <<>>
    /\ opts.q # None
    /\ queries' = <<Sent(opts, NoPage.pagination)>>
    /\ self' \in ListedPages
    /\ closure' = [shared |-> TRUE, opts |-> NoOptions]
    /\ UNCHANGED <<vars, tokenVars, calcVars, taskVars, scopeVars, op, ppc, fetches, pages,
                   current_page, all_items, ret, iterVars, opts>>

\* fetcher(page, page_size) of the Page in hand: new_opts from the captured
\* options, the list or search call on them, and the Page it returns, which
\* the caller moves to (as to_list and iteration do) or not
fetcher(args, move) ==
    /\ queries # <<>>
    /\ Len(queries) <= MaxHops
    /\ LET new_opts == [Captured EXCEPT !.page = args[1], !.page_size = args[2]]
       IN /\ queries' = Append(queries, Sent(new_opts, self.pagination))
          /\ IF move
             THEN /\ self' \in ListedPages
                  /\ closure' = [shared |-> FALSE, opts |-> new_opts]
             ELSE UNCHANGED <<self, closure>>
    /\ UNCHANGED <<vars, tokenVars, calcVars, taskVars, scopeVars, op, ppc, fetches, pages,
                   current_page, all_items, ret, iterVars, opts>>

\* Page.next_page, previous_page and go_to_page on a Page of a list call
list_next_page(move) == self.pagination.has_next /\ fetcher(NextArgs(self), move)
list_previous_page(move) ==
    self.pagination.has_previous /\ fetcher(PreviousArgs(self), move)
list_go_to_page(n, move) == fetcher(<<n, self.pagination.page_size>>, move)

\* the caller assigns to fields of the options object it passed
\* (ListCardsOptions and SearchCardsOptions are plain dataclasses)
assign(o) ==
    /\ queries # <<>>
    /\ o # opts
    /\ (o.q = None) = (opts.q = None)
    /\ opts' = o
    /\ UNCHANGED <<vars, tokenVars, calcVars, pageVars, taskVars, scopeVars, closure,
                   queries>>

NextList ==
    \/ cards_list
    \/ cards_search
    \/ \E move \in BOOLEAN : list_next_page(move)
    \/ \E move \in BOOLEAN : list_previous_page(move)
    \/ \E n \in {3}, move \in BOOLEAN : list_go_to_page(n, move)
    \/ \E o \in Options : assign(o)

SpecList == InitList /\ [][NextList]_allVars

(***************************************************************************)
(* C11                                                                     *)
(***************************************************************************)
\* C11 as stated: after set_token(t), whatever source was configured before,
\* every later get_token() returns t and never invokes a previously configured
\* callback, until set_token is called again.
C11_AsStated ==
    (lastSet # None /\ gotSince) => (token = lastSet /\ cbCalls = 0)

\* C11, amended: after set_token(t), whatever source was configured before,
\* every later get_token() returns t when t is not the empty string and null
\* when t is the empty string, and never invokes a previously configured
\* callback, until set_token is called again.
C11_SetTokenWins ==
    (lastSet # None /\ gotSince) =>
      /\ token = (IF lastSet # Some("") THEN lastSet ELSE None)
      /\ cbCalls = 0

C11_Witness ==
    /\ lastSet = Some("tokB") /\ gotSince
    /\ cbToken = Some("tokA") /\ ~get_token_fn
    /\ token = Some("tokB") /\ cbCalls = 0

(***************************************************************************)
(* C12 .. C16: the Error Classifier and the delay computation              *)
(***************************************************************************)
\* the body a function was applied to
InputBody == input.resp.body

\* the function returned an error
Classified ==
    /\ output.fn \in {"from_response", "handle_error_response"}
    /\ output.raised = ""

\* C12: for every status and every response body, from_response(status, body)
\* returns Validation for 400, Authentication for 401, Forbidden for 403,
\* NotFound for 404, RateLimit for 429 and the plain base error for any other
\* status, and the error's status field equals the given status.
C12_KindPerStatus ==
    output.fn = "from_response" =>
      /\ output.raised = ""
      /\ output.error.kind = SpecKind(input.resp.status)
      /\ output.error.status = input.resp.status

\* the message C13 states: the title when present, otherwise the detail when
\* present, otherwise "HTTP <status> error"
StatedMessage ==
    IF InputBody.title # None THEN The(InputBody.title)
    ELSE IF InputBody.detail # None THEN The(InputBody.detail)
    ELSE "HTTP " \o ToString(input.resp.status) \o " error"

\* C13 as stated: the message of a classified error is the body's title when
\* title is present, otherwise the body's detail when detail is present,
\* otherwise "HTTP <status> error"; a missing or unparseable body has neither.
C13_AsStated ==
    Classified => output.error.message = StatedMessage

\* C13, amended: the message of a classified error is the body's title when
\* title is present and not the empty string, otherwise the body's detail
\* when detail is present and not the empty string, otherwise
\* "HTTP <status> error"; a missing or unparseable body has neither field.
C13_MessageChoice ==
    Classified =>
      output.error.message = SpecMessage(input.resp.status, InputBody)

C13_Witness ==
    /\ Classified
    /\ input.resp.status = 404
    /\ InputBody = Problem(Some("Not Found"), None)
    /\ output.error.kind = "NotFoundError"
    /\ output.error.message = "Not Found"

\* C14: for a 429 response the RateLimit error's retry_after is the
\* Retry-After header's seconds times 1000 and null when the header is
\* absent; errors of every other kind carry no retry-after value.
C14_RetryAfterMs ==
    (output.fn = "handle_error_response" /\ output.raised = "") =>
      LET h == input.resp.retry_after
          ra == output.error.retry_after
      IN /\ output.error.kind # "RateLimitError" => ra = None
         /\ output.error.kind = "RateLimitError" =>
              /\ h = None => ra = None
              /\ h = Some("0") => ra = Some(0)
              /\ h = Some("2") => ra = Some(2000)
              /\ h = Some("5") => ra = Some(5000)
              /\ h = Some("60") => ra = Some(60000)

C14_Witness ==
    /\ output.fn = "handle_error_response"
    /\ input.resp.status = 429
    /\ input.resp.retry_after = Some("60")
    /\ output.raised = ""
    /\ output.error.kind = "RateLimitError"
    /\ output.error.retry_after = Some(60000)

\* C15: when the error passed to the delay computation is a RateLimit error
\* that carries a retry-after value r >= 0, the delay is min(r, max_delay),
\* for every attempt number and for both settings of exponential.
C15_HintOverrides ==
    ( /\ output.fn = "calculate_delay"
      /\ output.error # None
      /\ The(output.error).kind = "RateLimitError"
      /\ The(output.error).retry_after # None ) =>
      output.delay = MinOf(The(The(output.error).retry_after), input.rc.max_delay)

\* no rate-limit hint reached the delay computation
NoHint == output.error = None \/ The(output.error).retry_after = None

\* C16: with exponential set and no rate-limit hint, the delay after attempt n
\* is min(base_delay * 2^(n-1), max_delay); it does not decrease from one
\* attempt to the next and never exceeds max_delay.
C16_ExponentialDelay ==
    (output.fn = "calculate_delay" /\ input.rc.exponential /\ NoHint) =>
      /\ output.delay =
           MinOf(input.rc.base_delay * Pow2(input.n - 1), input.rc.max_delay)
      /\ output.delay <= output.after
      /\ output.delay <= input.rc.max_delay

C16_Witness ==
    /\ output.fn = "calculate_delay"
    /\ input.rc = [base_delay |-> 1000, max_delay |-> 1500, exponential |-> TRUE]
    /\ input.n = 2
    /\ NoHint
    /\ output.delay = 1500
    /\ output.after = 1500

(***************************************************************************)
(* C17 .. C20: the methods of Page                                         *)
(***************************************************************************)
\* the method ended with the Page the fetcher answered
ReturnsFetched ==
    (ppc = "done" /\ pages[1].type = "page") => ret = ReturnPage(Some(pages[1].page))

\* C17: next_page returns None and performs no fetch when has_next is false;
\* when has_next is true it calls the fetcher exactly once, with
\* (page + 1, page_size) of this page, and returns the fetched Page.
C17_NextPage ==
    (op = "next_page" /\ ppc # "idle") =>
      IF ~self.pagination.has_next
      THEN ppc = "done" /\ ret = ReturnPage(None) /\ fetches = <<>> /\ pages = <<>>
      ELSE /\ fetches = << <<self.pagination.page + 1, self.pagination.page_size>> >>
           /\ Len(pages) = (IF ppc = "done" THEN 1 ELSE 0)
           /\ ReturnsFetched

C17_Witness ==
    /\ op = "next_page" /\ ppc = "done"
    /\ self.pagination.has_next
    /\ self.pagination.page = 1 /\ self.pagination.page_size = 2
    /\ fetches = << <<2, 2>> >>
    /\ ret.type = "return" /\ ret.page # None
    /\ The(ret.page).pagination.page = 2

\* C18: previous_page returns None and performs no fetch when has_previous is
\* false; when has_previous is true it calls the fetcher exactly once, with
\* (page - 1, page_size), and returns the fetched Page.
C18_PreviousPage ==
    (op = "previous_page" /\ ppc # "idle") =>
      IF ~self.pagination.has_previous
      THEN ppc = "done" /\ ret = ReturnPage(None) /\ fetches = <<>> /\ pages = <<>>
      ELSE /\ fetches = << <<self.pagination.page - 1, self.pagination.page_size>> >>
           /\ Len(pages) = (IF ppc = "done" THEN 1 ELSE 0)
           /\ ReturnsFetched

C18_Witness ==
    /\ op = "previous_page" /\ ppc = "done"
    /\ self.pagination.has_previous
    /\ self.pagination.page = 2 /\ self.pagination.page_size = 1
    /\ fetches = << <<1, 1>> >>
    /\ ret.type = "return" /\ ret.page # None

\* C19: go_to_page(n) calls the fetcher exactly once, with (n, page_size), for
\* every integer n, n < 1 and n > total_pages included, whatever has_next and
\* has_previous are; it ends with the fetcher's answer and never rejects n.
C19_GoToPage ==
    (op = "go_to_page" /\ ppc # "idle") =>
      /\ fetches = << <<input.page, self.pagination.page_size>> >>
      /\ Len(pages) = (IF ppc = "done" THEN 1 ELSE 0)
      /\ ReturnsFetched

C19_Witness ==
    /\ op = "go_to_page" /\ ppc = "done"
    /\ input.page = 0 - 1
    /\ ~self.pagination.has_next /\ ~self.pagination.has_previous
    /\ fetches = << <<0 - 1, self.pagination.page_size>> >>
    /\ ret.type = "return" /\ ret.page # None

\* the Page to_list was called on and the Pages fetched since, in order
Chain == <<self>> \o [i \in 1..Len(pages) |-> pages[i].page]

\* the items of a sequence of Pages, in page order
RECURSIVE ItemsOf(_)
ItemsOf(chain) ==
    IF chain = <<>> THEN <<>> ELSE Head(chain).data \o ItemsOf(Tail(chain))

\* C20: for a chain of N pages where the first N-1 report has_next and the
\* last does not, to_list on the first returns the items of all N pages in
\* page order, each once, and performs exactly N-1 fetches; it goes on
\* fetching as long as the last page obtained reports has_next.
C20_ToList ==
    (op = "to_list" /\ \A i \in 1..Len(pages) : pages[i].type = "page") =>
      LET N == Len(Chain)
      IN /\ \A i \in 1..(N - 1) : Chain[i].pagination.has_next
         /\ all_items = ItemsOf(Chain)
         /\ IF Chain[N].pagination.has_next
            THEN ppc = "fetching" /\ Len(fetches) = N
            ELSE /\ ppc = "done"
                 /\ ret = ReturnList(ItemsOf(Chain))
                 /\ Len(fetches) = N - 1

C20_Witness ==
    /\ op = "to_list" /\ ppc = "done"
    /\ Len(Chain) = 3
    /\ \A i \in 1..3 : Chain[i].pagination.page = i /\ Len(Chain[i].data) = 1
    /\ ret = ReturnList(<< <<1, 1>>, <<2, 1>>, <<3, 1>> >>)
    /\ Len(fetches) = 2

(***************************************************************************)
(* C21 .. C30                                                              *)
(***************************************************************************)
\* the fetcher was asked, each time, for the page after the one last obtained
\* and with that page's page_size
FetchesFollowChain ==
    \A i \in 1..Len(fetches) :
        fetches[i] = <<Chain[i].pagination.page + 1, Chain[i].pagination.page_size>>

\* C21: iteration over a Page first yields that page's buffered items in
\* order, then, while the page last obtained reports has_next, fetches the
\* following page and yields its items in order; a fetch is issued only after
\* every item of the pages before it was yielded; a page whose has_next is
\* false yields exactly its buffered items once, with zero fetches.
C21_Iteration ==
    op = "iter" =>
      LET all == ItemsOf(Chain)
          last == Chain[Len(Chain)]
      IN /\ Len(yielded) <= Len(all)
         /\ yielded = SubSeq(all, 1, Len(yielded))
         /\ FetchesFollowChain
         /\ ppc = "yielding" => Len(fetches) = Len(pages)
         /\ ppc = "fetching" =>
              /\ yielded = all
              /\ last.pagination.has_next
              /\ Len(fetches) = Len(pages) + 1
         /\ (ppc = "done" /\ ret = Stopped) =>
              /\ yielded = all
              /\ Len(fetches) = Len(pages)
              /\ ~last.pagination.has_next
         /\ ~self.pagination.has_next =>
              /\ fetches = <<>>
              /\ ppc = "done" => (ret = Stopped /\ yielded = self.data)

C21_Witness ==
    /\ op = "iter" /\ ppc = "done" /\ ret = Stopped
    /\ self.pagination.page = 1 /\ self.pagination.page_size = 2
    /\ fetches = << <<2, 2>> >>
    /\ yielded = << <<1, 1>>, <<2, 1>>, <<2, 2>> >>

\* the value C22 gives a field: the one info supplies, else the default
Supplied(key, default) ==
    IF input.info # None /\ The(input.info)[key] # None
    THEN The(The(input.info)[key])
    ELSE default

\* C22: create_page(items, info, fetcher) takes each pagination field from
\* info when info supplies it and otherwise defaults it to page = 1,
\* page_size = len(items), total_count = len(items), total_pages = 1,
\* has_next = false, has_previous = false.
C22_CreatePage ==
    output.fn = "create_page" =>
      /\ output.page.data = input.data
      /\ output.page.pagination =
           [page |-> Supplied("page", 1),
            page_size |-> Supplied("pageSize", Len(input.data)),
            total_count |-> Supplied("totalCount", Len(input.data)),
            total_pages |-> Supplied("totalPages", 1),
            has_next |-> Supplied("hasNext", FALSE),
            has_previous |-> Supplied("hasPrevious", FALSE)]

C22_Witness ==
    /\ output.fn = "create_page"
    /\ input.data = <<>> /\ input.info = None
    /\ output.page.pagination =
         [page |-> 1, page_size |-> 0, total_count |-> 0, total_pages |-> 1,
          has_next |-> FALSE, has_previous |-> FALSE]

\* the data field of the decoded body is absent or empty
NoData ==
    \/ input.response.data = None
    \/ ~The(input.response.data).truthy

\* C23: a get-by-id or get-by-slug call that receives a 2xx response whose
\* decoded body is null, or an envelope whose data field is absent or empty,
\* fails with a NotFound error of status 404 built locally, and returns a
\* decoded record only when data is non-empty.
C23_GetNotFound ==
    (output.fn = "get" /\ input.response.shape \in {"null", "object"}) =>
      /\ NoData => /\ output.raised = "NotFoundError"
                   /\ output.error.kind = "NotFoundError"
                   /\ output.error.status = 404
                   /\ ~output.returned
      /\ output.returned => ~NoData

C23_Witness ==
    /\ output.fn = "get"
    /\ input.method = "sets.get_by_slug"
    /\ input.response = [shape |-> "object", truthy |-> TRUE, data |-> None]
    /\ output.error = Error("NotFoundError", 404, "Set not found")

\* the error the delay is computed from after a retried attempt s: none after
\* a connectivity failure, else the classified error of the response with the
\* hint of its Retry-After header
ErrorOfAttempt(s) ==
    IF s.type = "network" THEN None
    ELSE Some([Error(SpecKind(s.status), s.status, "") EXCEPT !.retry_after =
                 IF s.status = 429 /\ TruthyStr(s.retry_after)
                 THEN Some(IntOf(The(s.retry_after)) * 1000)
                 ELSE None])

\* the wait after attempt n that ended as s
WaitAfter(n, s) == calculate_delay(retry_config, n, ErrorOfAttempt(s))

\* C24: within one logical call exactly one backoff wait occurs between
\* attempt N and attempt N+1, its duration is the delay computed from attempt
\* number N and the outcome of attempt N, and no wait occurs before the first
\* attempt or after the last one: a call of A >= 1 attempts performs A-1 waits.
C24_OneWaitBetweenAttempts ==
    InCall =>
      /\ attempt = 0 => waits = <<>>
      /\ attempt >= 1 =>
           /\ Len(history) = attempt - 1
           /\ Len(waits) = (IF pc = "sleeping" THEN attempt ELSE attempt - 1)
           /\ \A n \in 1..Len(history) : waits[n] = WaitAfter(n, history[n])
           /\ pc = "sleeping" => waits[attempt] = WaitAfter(attempt, Summary(outcome))

C24_Witness ==
    /\ InCall /\ pc = "done"
    /\ attempt = 3
    /\ retry_config = [base_delay |-> 1000, max_delay |-> 30000, exponential |-> TRUE]
    /\ history[1].type = "network"
    /\ history[2].status = 429 /\ history[2].retry_after = Some("60")
    /\ waits = <<1000, 30000>>

\* the latest attempt failed in a way that is neither a timeout, nor a
\* connectivity failure, nor an API error: another exception of the transport
\* call, or a 2xx response announced as JSON whose body does not parse
OtherFailure ==
    \/ outcome.type = "unexpected"
    \/ /\ Got2xx
       /\ outcome.resp.status # 204
       /\ \E i \in 1..Len(outcome.resp.ctype) : outcome.resp.ctype[i] = "application/json"
       /\ ~outcome.resp.body.json

\* C25: a failure inside an attempt that is neither a timeout, a connectivity
\* failure nor an API error ends the logical call on that attempt with a
\* Network error that wraps the cause; it triggers no backoff wait and no
\* further attempt, whatever number of attempts remain.
C25_OtherFailureEndsCall ==
    (InCall /\ OtherFailure) =>
      /\ pc = "done"
      /\ result.type = "raise"
      /\ result.error.kind = "NetworkError"
      /\ result.error.status = 0
      /\ result.error.cause \notin {"none", "httpx.NetworkError"}
      /\ Len(waits) = attempt - 1

C25_Witness ==
    /\ InCall /\ OtherFailure /\ Got2xx
    /\ attempt = 1 /\ max_attempts = MaxRetries + 1
    /\ pc = "done"
    /\ result.error.kind = "NetworkError"
    /\ result.error.cause = "JSONDecodeError"
    /\ waits = <<>>

\* the call ended with the fallback error of the line after the attempt loop
Fallback ==
    /\ result.type = "raise"
    /\ result.error.kind = "NetworkError"
    /\ result.error.message = "Request failed after retries"

C27_PageInfoInvariant ==
    output.fn = "create_page" =>
      LET info == output.page.pagination
      IN /\ info.has_next => info.page < info.total_pages
         /\ info.has_previous => info.page > 1

\* to_list or an iteration is running or ran last
Walking == op \in {"to_list", "iter"}

\* the chain of pages came to an end: the fetcher failed or gave no page, or
\* the page last obtained reports no next page
ChainEnded ==
    \/ pages # <<>> /\ pages[Len(pages)].type # "page"
    \/ ~Chain[Len(Chain)].pagination.has_next

\* C28: to_list and iteration terminate if and only if the chain of pages
\* reached through next_page reaches a page with has_next false (or a fetch
\* that fails or returns no page); as long as every fetched page reports
\* has_next they go on fetching, past total_pages too.
C28_TerminatesIffChainEnds ==
    /\ [](Walking =>
            /\ ppc = "done" => ChainEnded
            /\ (op = "to_list" /\ ChainEnded) => ppc = "done"
            /\ ~ChainEnded => ppc \in {"fetching", "yielding"}
            /\ (ChainEnded /\ ppc # "done") => (ppc = "yielding" /\ Len(fetches) = Len(pages)))
    /\ [](Walking /\ ChainEnded => <>(ppc = "done" \/ ~Walking))
    /\ [](Walking /\ ~ChainEnded => <>(ChainEnded \/ ppc = "fetching" \/ ~Walking))

\* to_list asked for a page past total_pages because the last page said has_next
C28_Witness ==
    /\ op = "to_list" /\ ppc = "fetching"
    /\ Len(pages) = 2
    /\ Chain[3].pagination.page = 3 /\ Chain[3].pagination.total_pages = 3
    /\ Chain[3].pagination.has_next
    /\ fetches[3][1] = 4

\* C29: next_page, previous_page, go_to_page, to_list and iteration leave the
\* Page they are called on unchanged; each new iteration or to_list on the
\* same Page starts again from that page's buffered items and fetches the
\* following pages again, whether or not an earlier iteration ran to the end.
C29_PageUnchanged ==
    [][ /\ self' = self
        /\ (op = "none" /\ op' = "to_list") =>
             /\ all_items' = self.data
             /\ current_page' = Some(self)
             /\ fetches' = (IF self.pagination.has_next
                            THEN << <<self.pagination.page + 1,
                                      self.pagination.page_size>> >>
                            ELSE <<>>)
        /\ (op = "none" /\ op' = "iter") =>
             /\ yielded' = <<>> /\ at' = 0
             /\ current_page' = None
             /\ fetches' = <<>>
        /\ (op' = "iter" /\ Len(yielded') > Len(yielded) /\ pages' = <<>>) =>
             yielded' = SubSeq(self.data, 1, Len(yielded'))
        /\ (op' = "iter" /\ Len(fetches') = 1) =>
             fetches'[1] = <<self.pagination.page + 1, self.pagination.page_size>>
      ]_allVars

\* a second iteration, after one the caller left early, walked the same pages
C29_Witness ==
    /\ earlier = "left"
    /\ op = "iter" /\ ppc = "done" /\ ret = Stopped
    /\ Len(self.data) = 1
    /\ Len(pages) = 1
    /\ fetches = << <<self.pagination.page + 1, self.pagination.page_size>> >>
    /\ yielded = self.data \o pages[1].page.data
    /\ Len(yielded) = 3

\* a logical call of the client is under way or just over
CallOpen == pc \in {"sending", "sleeping", "done"}

\* the part of C30 that holds: fetches one at a time, each a logical call of
\* its own with the full attempt budget
OneFetchAtATime ==
    /\ Len(fetches) - Len(pages) = (IF ppc = "fetching" THEN 1 ELSE 0)
    /\ CallOpen => ppc = "fetching"
    /\ CallOpen =>
         /\ ~no_retry
         /\ max_attempts = retries + 1
         /\ attempt >= 1 /\ attempt <= retries + 1
         /\ Len(history) = attempt - 1
         /\ Len(sentAuth) = attempt

\* C30 as stated: during to_list and during iteration page fetches are
\* strictly sequential, at most one in flight, the fetch of page k+1 starting
\* only after the fetch of page k returned; pages are requested in increasing
\* order page+1, page+2, ...; each fetch is a separate logical call with its
\* own full attempt budget.
C30_AsStated ==
    Walking =>
      /\ OneFetchAtATime
      /\ \A i \in 1..Len(fetches) : fetches[i][1] = self.pagination.page + i

\* C30, amended: page fetches are strictly sequential, at most one in flight,
\* a fetch starting only after the one before returned; each fetch asks for
\* the number that the page last obtained reports plus one (page+1, page+2,
\* ... when every fetched page reports the number it was asked for); each
\* fetch is a separate logical call with its own full attempt budget.
C30_SequentialFetches ==
    Walking =>
      /\ OneFetchAtATime
      /\ FetchesFollowChain
      /\ ( \A i \in 1..Len(pages) :
             pages[i].type = "page" /\ pages[i].page.pagination.page = fetches[i][1] )
         => \A i \in 1..Len(fetches) : fetches[i][1] = self.pagination.page + i

\* the second fetch of a walk used its whole budget of two attempts
C30_Witness ==
    /\ Walking /\ retries = 1
    /\ Len(pages) = 1 /\ Len(fetches) = 2
    /\ fetches[2][1] = self.pagination.page + 2
    /\ pc = "done" /\ attempt = 2
    /\ history[1].type = "network"
    /\ result.type = "return"

(***************************************************************************)
(* C31 .. C40                                                              *)
(***************************************************************************)
\* the latest answer of the fetcher
LastAnswer == pages[Len(pages)]

\* C31: if the fetch of some later page fails during to_list or iteration,
\* the error raised by that fetch reaches the caller unchanged: to_list
\* returns no partial list, and an iteration raises the error after having
\* yielded exactly the items of the pages fetched before the failure, and
\* yields nothing after it.
C31_FetchErrorReachesCaller ==
    (Walking /\ pages # <<>> /\ LastAnswer.type = "raise") =>
      /\ ppc = "done"
      /\ ret.type = "raise"
      /\ ret.error = LastAnswer.error
      /\ ret.items = <<>>
      /\ op = "iter" =>
           yielded = ItemsOf(<<self>> \o [i \in 1..(Len(pages) - 1) |-> pages[i].page])

C31_Witness ==
    /\ op = "iter" /\ ppc = "done"
    /\ Len(pages) = 2
    /\ pages[1].type = "page" /\ Len(pages[1].page.data) = 2
    /\ LastAnswer.type = "raise"
    /\ ret.type = "raise" /\ ret.error.kind = "NotFoundError"
    /\ Len(self.data) = 1
    /\ Len(yielded) = 3

\* the filter, sort and search parameters of a query
Filters(query) == { kv \in query.params : kv[1] \notin {"page", "pageSize"} }

\* C32: every page fetched from a Page returned by a list or search call (by
\* next_page, previous_page, go_to_page, to_list or iteration, over any
\* number of hops) is requested with the same filter, sort and search
\* options as the original call; only page changes, and pageSize is the
\* value reported in the current page's metadata.
C32_SameOptions ==
    \A i \in 2..Len(queries) :
        /\ queries[i].path = queries[1].path
        /\ Filters(queries[i]) = Filters(queries[1])
        /\ <<"pageSize", queries[i].via.page_size>> \in queries[i].params

\* what a call with max attempts comes to when it runs alone and the
\* transport answers outs to its attempts att, att + 1, ...: the waits it
\* made, its result, and the attempts that were answered
RECURSIVE Alone(_, _, _, _)
Alone(max, outs, att, ws) ==
    IF outs = <<>>
    THEN [waits |-> ws, result |-> NoResult, answered |-> att - 1]
    ELSE LET st == attempt_step(retry_config, att, max, Head(outs))
         IN CASE st.next = "return" ->
                   [waits |-> ws, result |-> Return(st.value), answered |-> att]
              [] st.next = "raise" ->
                   [waits |-> ws, result |-> Raise(st.error), answered |-> att]
              [] OTHER -> Alone(max, Tail(outs), att + 1, Append(ws, st.delay))

\* the task has a call that got as far as its first attempt
Attempting(t) == calls[t].sent # <<>>

\* C33: logical calls running concurrently on one client are independent:
\* each has its own attempt counter and backoff waits, so the attempts,
\* retries, waits or failure of one call never change the number of
\* attempts, the delays or the outcome of another call, under every
\* interleaving at the suspension points.  Stated as: at every point of
\* every interleaving, the attempts, the waits and the result of each call
\* are what the call comes to when it runs alone on the answers the
\* transport gave to its own attempts.
C33_CallsIndependent ==
    \A t \in Tasks :
        Attempting(t) =>
          LET c == calls[t]
              alone == Alone(MaxAttemptsOf(c.no_retry, retries), c.outs, 1, <<>>)
          IN /\ c.waits = alone.waits
             /\ c.result = alone.result
             /\ Len(c.outs) = alone.answered
             /\ c.attempt = Len(c.outs) + (IF c.pc = "sending" THEN 1 ELSE 0)
             /\ Len(c.sent) = c.attempt
             /\ c.attempt <= c.max_attempts

C33_Witness ==
    /\ calls[1].pc = "done"
    /\ calls[1].result.type = "raise"
    /\ calls[1].result.error.kind = "TimeoutError"
    /\ calls[1].attempt = 1
    /\ calls[2].pc = "sending"
    /\ calls[2].attempt = 2
    /\ calls[2].waits = <<2000>>

\* the Authorization header that carries the token tok
Bearer(tok) == Some("Bearer " \o tok)

\* every attempt made so far carried no token or a whole token that was
\* current at some point
WholeTokens ==
    \A t \in Tasks : \A i \in 1..Len(calls[t].sent) :
        \/ calls[t].sent[i] = None
        \/ \E tok \in everCurrent : calls[t].sent[i] = Bearer(tok)

\* C34 as stated: when set_token(t) runs concurrently with logical calls,
\* every physical attempt carries a whole token that was current at some
\* point (the old one or t, never a mixture), and every logical call that
\* starts after set_token(t) has returned sends Bearer t on all of its
\* attempts until the next set_token.
C34_AsStated ==
    /\ WholeTokens
    /\ \A t \in Tasks :
         (Attempting(t) /\ calls[t].since # None) =>
           \A i \in 1..Len(calls[t].sent) :
               calls[t].sent[i] = Bearer(The(calls[t].since))

\* C34, amended: when set_token(t) runs concurrently with logical calls,
\* every physical attempt that carries a token carries a whole token that
\* was current at some point, and every logical call that starts after
\* set_token(t) has returned sends, on all of its attempts until the next
\* set_token, Bearer t when t is not the empty string and no Authorization
\* header when t is the empty string.
C34_SetTokenRace ==
    /\ WholeTokens
    /\ \A t \in Tasks :
         (Attempting(t) /\ calls[t].since # None) =>
           \A i \in 1..Len(calls[t].sent) :
               calls[t].sent[i] = IF The(calls[t].since) = "" THEN None
                                  ELSE Bearer(The(calls[t].since))

C34_Witness ==
    /\ lastSet = Some("tokB")
    /\ calls[1].since = None
    /\ calls[1].sent = <<Bearer("tokA"), Bearer("tokA")>>
    /\ calls[2].since = Some("tokB")
    /\ calls[2].sent = <<Bearer("tokB"), Bearer("tokB")>>

\* the transport the client holds, if any, is the one created last
Held == IF client THEN {Len(transports)} ELSE {}

\* C35: the transport opened when the client context is entered is closed
\* when the context is exited, whatever the outcomes of the calls made in
\* between (success, API error, timeout, network error); after exit the
\* client holds no open transport.
C35_TransportScoped ==
    \A i \in 1..Len(transports) : (transports[i] = "open") = (i \in Held)

\* the client was never entered, or it was exited after it was last entered
NotEntered == ~client

\* C36: a request issued on an HttpClient that was never entered, or that
\* was entered and then exited, fails with a RuntimeError before the token
\* provider is consulted and before any physical attempt is made; entering
\* the client again after an exit makes requests possible again.
C36_RequestNeedsEntry ==
    /\ (NotEntered /\ pc # "idle") =>
          /\ pc = "done"
          /\ result.type = "raise"
          /\ result.error.kind = "RuntimeError"
          /\ cbCalls = 0
          /\ token = None
          /\ attempt = 0
          /\ sentAuth = <<>>
    /\ (client /\ pc # "idle") =>
          /\ attempt >= 1
          /\ sentAuth # <<>>
          /\ get_token_fn => cbCalls = 1
          /\ pc = "done" => EndOf(result) # "RuntimeError"

C36_Witness ==
    /\ NotEntered
    /\ transports = <<"closed">>
    /\ get_token_fn
    /\ pc = "done"
    /\ result.error.kind = "RuntimeError"
    /\ "return" \in ended

\* the retried attempt that wait n follows
Retried(n) == IF n <= Len(history) THEN history[n] ELSE Summary(outcome)

\* the attempt ended in a rate-limit response whose hint is not zero
Hinted(s) ==
    /\ s.status = 429
    /\ TruthyStr(s.retry_after)
    /\ IntOf(The(s.retry_after)) # 0

\* C37 as stated: every backoff wait performed by a logical call is at most
\* max_delay seconds, for every retry configuration (exponential or fixed,
\* any base_delay) and every failure that triggers the wait.
C37_AsStated ==
    \A n \in 1..Len(waits) : waits[n] <= retry_config.max_delay

\* C37, amended: a backoff wait performed by a logical call is at most
\* max_delay when the retry configuration is exponential or when the wait
\* follows a rate-limit response with a non-zero hint; every other wait
\* under a fixed configuration is exactly base_delay, whatever max_delay is.
C37_WaitsBounded ==
    \A n \in 1..Len(waits) :
        IF retry_config.exponential \/ Hinted(Retried(n))
        THEN waits[n] <= retry_config.max_delay
        ELSE waits[n] = retry_config.base_delay

C37_Witness ==
    /\ retry_config = [base_delay |-> 2000, max_delay |-> 1500, exponential |-> FALSE]
    /\ Len(waits) = 2
    /\ waits[1] = 2000
    /\ Hinted(Retried(2))
    /\ waits[2] = 1500

\* one walk along has_next from the Page cur on the fetcher answers given:
\* the items collected, the fetches asked, and how it stands: over, raised,
\* or waiting for the next answer
RECURSIVE WalkOf(_, _, _, _)
WalkOf(cur, answers, items, asked) ==
    IF cur = None \/ ~The(cur).pagination.has_next
    THEN [items |-> items, fetches |-> asked, end |-> "over", error |-> NoError]
    ELSE LET asks == Append(asked, <<The(cur).pagination.page + 1,
                                     The(cur).pagination.page_size>>)
         IN IF answers = <<>>
            THEN [items |-> items, fetches |-> asks, end |-> "waiting",
                  error |-> NoError]
            ELSE LET r == Head(answers)
                 IN CASE r.type = "raise" ->
                           [items |-> items, fetches |-> asks, end |-> "raised",
                            error |-> r.error]
                      [] r.type = "none" ->
                           WalkOf(None, Tail(answers), items, asks)
                      [] OTHER ->
                           WalkOf(Some(r.page), Tail(answers),
                                  items \o r.page.data, asks)

\* the walk from the Page the method was called on, on the answers so far
TheWalk == WalkOf(Some(self), pages, self.data, <<>>)

\* C38: for the same starting Page and the same sequence of fetcher results,
\* collecting the items of an iteration gives the same sequence as to_list()
\* and both perform the same fetches, with the same (page, page_size)
\* arguments in the same order.  Stated as: the items and the fetches of
\* either method are those of the one walk that the starting Page and the
\* fetcher results determine; an iteration that is still yielding has
\* yielded a prefix of the items and asked every fetch but the coming one.
C38_IterationAsToList ==
    /\ op = "to_list" =>
         /\ all_items = TheWalk.items
         /\ fetches = TheWalk.fetches
         /\ (ppc = "done") = (TheWalk.end # "waiting")
         /\ TheWalk.end = "over" => ret = ReturnList(TheWalk.items)
         /\ TheWalk.end = "raised" => ret = Raised(TheWalk.error)
    /\ op = "iter" =>
         /\ Len(yielded) <= Len(TheWalk.items)
         /\ yielded = SubSeq(TheWalk.items, 1, Len(yielded))
         /\ ppc = "yielding" => fetches = SubSeq(TheWalk.fetches, 1, Len(pages))
         /\ ppc # "yielding" =>
              /\ yielded = TheWalk.items
              /\ fetches = TheWalk.fetches
         /\ (ppc = "done") => TheWalk.end # "waiting"
         /\ ppc = "fetching" => TheWalk.end = "waiting"
         /\ (ppc = "done" /\ TheWalk.end = "over") => ret = Stopped
         /\ (ppc = "done" /\ TheWalk.end = "raised") => ret = Raised(TheWalk.error)

C38_Witness ==
    /\ op = "iter" /\ ppc = "done" /\ ret = Stopped
    /\ earlier = "ended"
    /\ Len(pages) = 2
    /\ pages[1].type = "page" /\ pages[2].type = "page"
    /\ yielded = TheWalk.items
    /\ Len(yielded) = 4
    /\ fetches = TheWalk.fetches

\* the state of the client: the transport it holds, its retry settings and
\* its token source
clientState == <<client, retries, retry_config, static_token, get_token_fn>>

\* C39: a logical call that fails (with any error kind) leaves the client's
\* state unchanged: configuration, retry settings, token source and the open
\* transport are the same as before the call, so a following call on the
\* same client behaves as if the failed call had not been made.  Stated as:
\* no step of a call, from the request to the handing over of its result,
\* changes the client's state, and when the result is handed over every
\* local of the call is gone.
C39_FailedCallLeavesClient ==
    [][ /\ (pc # "idle" \/ pc' # "idle") => UNCHANGED clientState
        /\ (pc = "done" /\ pc' = "idle") =>
              /\ attempt' = 0 /\ max_attempts' = 0 /\ ~no_retry'
              /\ token' = None /\ headers' = None /\ sentAuth' = <<>>
              /\ cbCalls' = 0 /\ outcome' = NoOutcome /\ history' = <<>>
              /\ waits' = <<>> /\ last_error' = None /\ result' = NoResult
      ]_vars

C39_Witness ==
    /\ pc = "done"
    /\ client
    /\ result.type = "raise"
    /\ result.error.kind = "RateLimitError"
    /\ attempt = 3
    /\ retries = 2

\* has_auth() was called
Asked == output.fn = "has_auth"

\* what has_auth() would return now
HasAuth == has_auth(static_token, get_token_fn)

\* the latest get_token() returned null, and the header built from it is none
NoTokenGot == token = None /\ build_headers(token) = None

\* C40 as stated: has_auth() is true exactly when a credential source is
\* configured (StaticAuth, DynamicAuth, or a token installed by set_token),
\* and whenever has_auth() is false get_token() returns null, so no attempt
\* carries an Authorization header.  A StaticAuth or a set_token leaves
\* _static_token other than None, a DynamicAuth leaves _get_token_fn set.
C40_AsStated ==
    /\ Asked => output.value = (output.static # None \/ output.callback)
    /\ (gotSince /\ ~HasAuth) => NoTokenGot

\* C40, amended: has_auth() is true exactly when the static token (given by
\* StaticAuth or installed by the latest set_token) is a non-empty string,
\* or a DynamicAuth callback is configured and no set_token was called since;
\* with StaticAuth("") or after set_token("") it is false.  Whenever
\* has_auth() is false get_token() returns null, so no attempt carries an
\* Authorization header.
C40_HasAuth ==
    /\ (Asked /\ output.after # None) => output.value = (The(output.after) # "")
    /\ (Asked /\ output.after = None) =>
         output.value = ( \/ output.static # None /\ The(output.static) # ""
                          \/ output.callback )
    /\ (gotSince /\ ~HasAuth) => NoTokenGot

C40_Witness ==
    /\ Asked
    /\ output.after = Some("")
    /\ output.value = FALSE
    /\ lastSet = Some("")
    /\ gotSince
    /\ NoTokenGot

====
